---------------------------- MODULE Spec2Model ----------------------------
(***************************************************************************)
(* A model of theme-agent's safety-enforcing mutation pipeline:            *)
(*   - the command sandbox        (src/agent/tools/cmd.py)                 *)
(*   - the scoped theme filesystem (src/agent/tools/fs_theme.py)           *)
(*   - the plan validator         (src/agent/tools/plan_policy.py)         *)
(*   - the patch engine           (src/agent/tools/patch_apply.py,         *)
(*                                 src/agent/tools/patch_unified.py)       *)
(*   - the apply pipeline         (src/agent/cli.py, "apply")              *)
(*                                                                         *)
(* A Python str is a sequence of atoms.  An atom is one character ("/",    *)
(* ".", "a", "LF", ...) or, in paths, one whole name that holds no         *)
(* separator, dot, or blank ("sections", "liquid"); two adjacent name      *)
(* atoms form a different, longer name, as their concatenation does.       *)
(***************************************************************************)
EXTENDS Integers, Sequences, FiniteSets, TLC

VARIABLES
    \* ---- cmd.py: one call of run_allowed
    cmd,               \* the argument vector
    allowed_prefixes,  \* the allow-list (its order is irrelevant to any())
    cmdPc,             \* "call" | "checked" | "returned" | "raised"
    cmdOutcome,        \* "" | "CmdResult" | "TimeoutExpired" | "CommandNotAllowed"
    procs,             \* the argument vectors handed to subprocess.run, in order
    \* ---- fs_theme.py: one call of ThemeFS._resolve_rel
    rel_path,          \* the argument
    tfsPc,             \* "call" | "returned"
    tfsOutcome,        \* [status, p]: the Path returned or the error raised
    \* ---- cli.py "apply": validate_plan, then apply_plan_ops
    raw_plan,          \* the plan document read from the plan file
    plan,              \* what validate_plan returned
    disk,              \* the workspace: absolute path -> node
    pc,                \* "start" | "apply" | "applied" | "exited" | "crashed"
    op_i,              \* apply_plan_ops' loop index i (0-based)
    changed_files,     \* apply_plan_ops' changed set
    created_files,     \* apply_plan_ops' created set
    applied_ops,       \* apply_plan_ops' applied list, as op indices
    err,               \* [kind, cause]: the exception that ended the run
    artifacts,         \* the run's out_dir: file name -> what was written
    exit_code,         \* the process's exit status, -1 while it runs
    named_files,       \* the paths named by what apply_plan_ops delivered: the
                       \* ApplyError's message (apply_error.txt), or the
                       \* changed_files of its result (apply_meta.json)
    \* ---- plan_policy.py: one call of validate_plan with keyword arguments
    val_plan,          \* the plan argument
    val_limits,        \* max_ops, max_creates, max_total_written_chars, require_...
    valPc,             \* "call" | "returned" | "raised"
    valOutcome,        \* [err, plan]: the plan returned or the PlanError raised
    \* ---- fs_theme.py: ThemeFS.write_text, then ThemeFS.read_text of the path
    tw_rel_path,       \* the path argument of both calls
    tw_content,        \* the content argument of write_text
    tw_fs,             \* the workspace
    twPc,              \* "call" | "written" | "raised" | "read"
    twOutcome,         \* "" | "ok" | the exception write_text raised
    tw_read,           \* [status, text]: what read_text returned or raised
    tw_fs0,            \* the workspace before write_text (history)
    \* ---- artifacts_fs.py: one call of ArtifactFS.write_text or write_base64
    af_op,             \* "write_text" | "write_base64"
    af_rel_path,       \* the path argument
    af_data,           \* [ok, bytes]: the content, or what the base64 decodes to
    af_fs,             \* the file system: absolute path -> node
    afPc,              \* "call" | "returned" | "raised"
    afOutcome,         \* [status, p]: the path returned or the error raised
    af_fs0,            \* the file system before the call (history)
    \* ---- human_gate.py: wait_for_continue, and the human who writes the signal
    signal,            \* tasks/continue.md: [exists, bytes]
    gatePc,            \* "idle" | "polling" | "returned"
    gate_notes,        \* what wait_for_continue returned
    gate_raw,          \* the file's bytes at the poll that returned (history)
    human_words,       \* the words the human may write into the signal file
    human_count,       \* how many words the human has written into the file
    \* ---- run_loop.py run_agent_loop, llm_openai_compat.py run_with_tools
    lp_max_iters,      \* run_agent_loop's max_iters
    lp_max_trips,      \* run_with_tools' max_tool_round_trips
    llm_answers,       \* the responses the model may give to a request
    messages,          \* the conversation
    lp_i,              \* run_agent_loop's i, 0 before the first iteration
    lp_trips,          \* how many rounds of run_with_tools' loop have started
    pending,           \* the tool calls of this round that are still to run
    decision,          \* what run_with_tools returned
    loopPc,            \* "idle" | "iter" | "chat" | "tools" | "tool_paused" |
                       \* "decided" | "paused" | "returned" | "raised"
    loopOutcome,       \* "" | the exception that ended run_agent_loop
    lp_files,          \* the files run_agent_loop wrote into the run directory
    lp_log,            \* requests, tool calls, decisions, pauses, in order (history)
    lp_procs,          \* the subprocesses of the run: which are configured (cfg),
                       \* which were started, which the run holds a handle of
                       \* (held), which were asked to terminate (stopped), and
                       \* every launch of a process with the call that made it
                       \* (launched)
    \* ---- mcp_stdio.py MCPClient
    mcp_cmd,           \* from_cmd's cmd: "" or a command line
    mcpPc,             \* "idle" | "ready" (from_cmd returned the client) |
                       \* "raised" (from_cmd raised) | "closed"
    mcp_id,            \* the client's _id
    mcp_wire,          \* the lines written to and read from the peer, in order (history)
    mcp_calls,         \* how many calls the client's holder has made
    mcp_last,          \* how the last call on the client ended
    mcp_threads,       \* the callers that share the client: where each is in
                       \* _request, its req_id, what it read and how it ended
    mcp_inbox,         \* the ids of the requests the peer has not answered yet
    mcp_pipe,          \* the lines the peer has written and nobody has read yet
    mcp_trace,         \* the ids taken, the writes and the reads, in order (history)
    \* ---- history, read by the properties only
    disk0,             \* the workspace when the run started
    diskHist,          \* the workspace after each op tried, in order
    tried,             \* the indices of the ops tried, in order
    validations        \* how many times validate_plan was called

cmdVars == <<cmd, allowed_prefixes, cmdPc, cmdOutcome, procs>>
tfsVars == <<rel_path, tfsPc, tfsOutcome>>
runVars == <<raw_plan, plan, disk, pc, op_i, changed_files, created_files,
             applied_ops, err, artifacts, exit_code, named_files>>
histVars == <<disk0, diskHist, tried, validations>>
valVars == <<val_plan, val_limits, valPc, valOutcome>>
twVars == <<tw_rel_path, tw_content, tw_fs, twPc, twOutcome, tw_read, tw_fs0>>
coreVars == <<cmdVars, tfsVars, runVars, histVars, valVars, twVars>>
afVars == <<af_op, af_rel_path, af_data, af_fs, afPc, afOutcome, af_fs0>>
gateVars == <<signal, gatePc, gate_notes, gate_raw, human_words, human_count>>
loopVars == <<lp_max_iters, lp_max_trips, llm_answers, messages, lp_i, lp_trips,
              pending, decision, loopPc, loopOutcome, lp_files, lp_log, lp_procs>>
sharedVars == <<mcp_threads, mcp_inbox, mcp_pipe, mcp_trace>>
mcpVars == <<mcp_cmd, mcpPc, mcp_id, mcp_wire, mcp_calls, mcp_last, sharedVars>>
moreVars == <<afVars, gateVars, loopVars, mcpVars>>
vars == <<coreVars, moreVars>>

---------------------------------------------------------------------------
(* Bounds of the model. *)

MaxArgv == 2        \* longest argument vector and longest allowed prefix
MaxPrefixes == 2    \* most prefixes in an allow-list
MaxPathLen == 5     \* longest path string handed to ThemeFS, in atoms
MaxPlanPathLen == 5 \* longest path string of a plan op, in atoms
MaxOps == 3         \* most ops in a plan
MaxTextLen == 3     \* longest file content, in characters
MaxSections == 2    \* most file sections in a patch
MaxHunkLines == 2   \* most body lines in a hunk
MaxWords == 3       \* most words the human adds to the signal file
MaxIters == 2       \* run_agent_loop's max_iters
MaxRoundTrips == 2  \* run_with_tools' max_tool_round_trips
MaxRequests == 3    \* most requests the model answers in one run
MaxMcpCalls == 2    \* most calls made on one MCP client
MaxCallers == 2     \* most callers that share one MCP client

---------------------------------------------------------------------------
(* Python str and list operations, on sequences. *)

Min(a, b) == IF a < b THEN a ELSE b
Max(a, b) == IF a > b THEN a ELSE b

\* All sequences over S of length 0..n.
SeqsUpTo(S, n) == UNION {[1..k -> S] : k \in 0..n}

\* s[:n]
Take(s, n) == SubSeq(s, 1, Min(n, Len(s)))

\* s[n:]  (n is 0-based, as in Python)
Drop(s, n) == SubSeq(s, n + 1, Len(s))

\* s.startswith(p)
StartsWith(s, p) == Len(p) <= Len(s) /\ SubSeq(s, 1, Len(p)) = p

\* s.endswith(p)
EndsWith(s, p) == Len(p) <= Len(s) /\ SubSeq(s, Len(s) - Len(p) + 1, Len(s)) = p

\* The 1-based positions at or after i where sub occurs in s.
OccursAt(s, sub, i) ==
    {j \in i..(Len(s) - Len(sub) + 1) : SubSeq(s, j, j + Len(sub) - 1) = sub}

\* The least element of a set of positions, 0 for the empty set.
FirstOf(at) == IF at = {} THEN 0 ELSE CHOOSE j \in at : \A k \in at : j <= k

\* The greatest element of a set of positions, 0 for the empty set.
LastOf(at) == IF at = {} THEN 0 ELSE CHOOSE j \in at : \A k \in at : j >= k

\* s.find(sub, i-1) + 1: the first 1-based position at or after i, 0 if none.
FindFrom(s, sub, i) == FirstOf(OccursAt(s, sub, i))

\* s.find(sub) + 1
Find(s, sub) == FindFrom(s, sub, 1)

\* sub in s
Contains(s, sub) == Find(s, sub) # 0

\* s.rfind(sub) + 1
RFind(s, sub) == LastOf(OccursAt(s, sub, 1))

RECURSIVE CountFrom(_, _, _)
\* s.count(sub) from position i: non-overlapping occurrences, left to right.
CountFrom(s, sub, i) ==
    LET After(j) == IF j = 0 THEN 0 ELSE 1 + CountFrom(s, sub, j + Len(sub))
    IN  After(FindFrom(s, sub, i))

RECURSIVE LStripSet(_, _)
\* s.lstrip(chars)
LStripSet(s, chars) ==
    IF s # <<>> /\ Head(s) \in chars THEN LStripSet(Tail(s), chars) ELSE s

RECURSIVE RStripSet(_, _)
\* s.rstrip(chars)
RStripSet(s, chars) ==
    IF s # <<>> /\ s[Len(s)] \in chars
    THEN RStripSet(SubSeq(s, 1, Len(s) - 1), chars)
    ELSE s

\* The whitespace atoms of the model.
Whitespace == {" ", "LF", "CR"}

\* s.strip()
Strip(s) == RStripSet(LStripSet(s, Whitespace), Whitespace)

RECURSIVE SplitOn(_, _)
\* s.split(sep) for a one-atom sep: every field, empty ones included.
SplitOn(s, sep) ==
    LET At(j) == IF j = 0 THEN <<s>>
                 ELSE <<SubSeq(s, 1, j - 1)>> \o SplitOn(Drop(s, j), sep)
    IN  At(Find(s, <<sep>>))

\* s.split(sep, 1)[0]
SplitFirst(s, sep) ==
    LET At(j) == IF j = 0 THEN s ELSE SubSeq(s, 1, j - 1)
    IN  At(Find(s, <<sep>>))

\* s.replace(old, new) for one-atom old and new.
ReplaceAtom(s, old, new) == [k \in DOMAIN s |-> IF s[k] = old THEN new ELSE s[k]]

RECURSIVE ReplaceAll(_, _, _)
\* s.replace(old, new): non-overlapping occurrences, left to right.
ReplaceAll(s, old, new) ==
    LET At(j) == IF j = 0 THEN s
                 ELSE SubSeq(s, 1, j - 1) \o new
                      \o ReplaceAll(Drop(s, j - 1 + Len(old)), old, new)
    IN  CHOOSE r \in {At(j) : j \in {Find(s, old)}} : TRUE

\* s.replace(old, new, 1)
ReplaceFirst(s, old, new) ==
    LET At(j) == IF j = 0 THEN s
                 ELSE SubSeq(s, 1, j - 1) \o new \o Drop(s, j - 1 + Len(old))
    IN  At(Find(s, old))

RECURSIVE SelectSeq2(_, _)
\* [x for x in s if x not in drop]
SelectSeq2(s, drop) ==
    IF s = <<>> THEN <<>>
    ELSE IF Head(s) \in drop THEN SelectSeq2(Tail(s), drop)
    ELSE <<Head(s)>> \o SelectSeq2(Tail(s), drop)

---------------------------------------------------------------------------
(* pathlib on POSIX, in a workspace that holds no symbolic link. *)

\* PurePosixPath(s).parts of a relative s: the fields between "/", without the
\* empty ones and the "." ones; ".." is kept.
Parts(s) == SelectSeq2(SplitOn(s, "/"), {<<>>, <<".">>})

RECURSIVE ResolveParts(_, _)
\* Path.resolve(): ".." removes the last segment (none is left at "/").
ResolveParts(done, rest) ==
    IF rest = <<>> THEN done
    ELSE IF Head(rest) = <<".", ".">>
         THEN ResolveParts(SubSeq(done, 1, Len(done) - 1), Tail(rest))
         ELSE ResolveParts(Append(done, Head(rest)), Tail(rest))

\* (root / rel).resolve() for a relative rel: the absolute path's segments.
ResolveUnder(root, rel) == ResolveParts(root, Parts(rel))

\* p.relative_to(root) succeeds
IsRelativeTo(p, root) == StartsWith(p, root)

\* The workspace root, resolved: /work/theme
Root == << <<"work">>, <<"theme">> >>

---------------------------------------------------------------------------
(* cmd.py *)

CmdTokens == {"rg", "--version", "git"}

\* A mutant of AllowListed: only the executable's name is compared.
AllowListedFirstOnly(c, prefixes) ==
    \E prefix \in prefixes :
        prefix = <<>> \/ (c # <<>> /\ c[1] = prefix[1])

\* any(cmd[: len(prefix)] == list(prefix) for prefix in allowed_prefixes)
AllowListed(c, prefixes) ==
    \E prefix \in prefixes : Take(c, Len(prefix)) = prefix

\* run_allowed, lines 30-37: the allow-list check.
RunAllowedCheck ==
    /\ cmdPc = "call"
    /\ IF AllowListed(cmd, allowed_prefixes)
       THEN cmdPc' = "checked" /\ cmdOutcome' = cmdOutcome
       ELSE cmdPc' = "raised" /\ cmdOutcome' = "CommandNotAllowed"
    /\ UNCHANGED <<cmd, allowed_prefixes, procs, tfsVars, runVars, histVars>>
    /\ UNCHANGED <<valVars, twVars>>
    /\ UNCHANGED moreVars

\* run_allowed, lines 39-47: subprocess.run creates the process, waits for it,
\* and returns its result or raises TimeoutExpired.
RunAllowedSpawn ==
    /\ cmdPc = "checked"
    /\ procs' = Append(procs, cmd)
    /\ cmdPc' = "returned"
    /\ cmdOutcome' \in {"CmdResult", "TimeoutExpired"}
    /\ UNCHANGED <<cmd, allowed_prefixes, tfsVars, runVars, histVars>>
    /\ UNCHANGED <<valVars, twVars>>
    /\ UNCHANGED moreVars

---------------------------------------------------------------------------
(* fs_theme.py *)

ALLOWED_TOP_DIRS ==
    { <<"sections">>, <<"snippets">>, <<"blocks">>, <<"templates">>,
      <<"layout">>, <<"assets">>, <<"config">>, <<"locales">> }

\* The atoms of the paths handed to ThemeFS.
PathAtoms == {"/", ".", "\\", " ", "sections", "x"}

NoPath == <<>>

\* rel_path.startswith("..") or "/../" in rel_path or "\\..\\" in rel_path
TraversalRejected(rel) ==
    \/ StartsWith(rel, <<".", ".">>)
    \/ Contains(rel, <<"/", ".", ".", "/">>)
    \/ Contains(rel, <<"\\", ".", ".", "\\">>)

\* ThemeFS._resolve_rel: the Path returned, or the ThemeScopeError raised.
ResolveRel(raw) ==
    LET Refused == [status |-> "ThemeScopeError", p |-> NoPath]
        Checked(rel, p, parts) ==
            IF TraversalRejected(rel) THEN Refused
            ELSE IF ~IsRelativeTo(p, Root) THEN Refused
            ELSE IF parts = <<>> THEN Refused
            ELSE IF parts[1] \notin ALLOWED_TOP_DIRS THEN Refused
            ELSE [status |-> "returned", p |-> p]
        Stripped(rel) == Checked(rel, ResolveUnder(Root, rel), Parts(rel))
    IN  Stripped(LStripSet(Strip(raw), {"/"}))

\* One call of ThemeFS._resolve_rel(rel_path).
ResolveRelCall ==
    /\ tfsPc = "call"
    /\ tfsOutcome' = ResolveRel(rel_path)
    /\ tfsPc' = "returned"
    /\ UNCHANGED <<rel_path, cmdVars, runVars, histVars, valVars, twVars>>
    /\ UNCHANGED moreVars

---------------------------------------------------------------------------
(* Files: what pathlib's read_text and write_text do on POSIX. *)

\* The atoms of file contents: two letters, line feed and carriage return.
TextChars == {"a", "b", "LF", "CR"}

RECURSIVE DecodeNewlines(_)
\* Reading in text mode with newline=None (Path.read_text): "\r\n" and a lone
\* "\r" are both read as "\n".
DecodeNewlines(bytes) ==
    IF bytes = <<>> THEN <<>>
    ELSE IF Head(bytes) = "CR"
         THEN IF Len(bytes) >= 2 /\ bytes[2] = "LF"
              THEN <<"LF">> \o DecodeNewlines(Drop(bytes, 2))
              ELSE <<"LF">> \o DecodeNewlines(Tail(bytes))
         ELSE <<Head(bytes)>> \o DecodeNewlines(Tail(bytes))

\* Writing in text mode with newline=None (Path.write_text): "\n" is written as
\* os.linesep, which is "\n"; every other character as it is.
EncodeNewlines(text) == text

\* The workspace is a function from the absolute paths that exist to nodes:
\* a directory, or a file with its bytes.
DirNode == [k |-> "dir", d |-> <<>>]
FileNode(bytes) == [k |-> "file", d |-> bytes]

\* Path.exists()
Exists(fs, p) == p \in DOMAIN fs

\* Path.is_file()
IsFile(fs, p) == p \in DOMAIN fs /\ fs[p].k = "file"

\* Path.is_dir()
IsDir(fs, p) == p \in DOMAIN fs /\ fs[p].k = "dir"

\* The proper ancestors of p, "/" excluded.
Ancestors(p) == {SubSeq(p, 1, n) : n \in 1..(Len(p) - 1)}

\* p.parent.mkdir(parents=True, exist_ok=True) cannot succeed: an ancestor is a file.
MkdirFails(fs, p) == \E a \in Ancestors(p) : IsFile(fs, a)

\* After p.parent.mkdir(parents=True, exist_ok=True); p.write_text(text).
\* Defined where neither fails (no ancestor is a file, p is no directory).
WriteFile(fs, p, text) ==
    [q \in DOMAIN fs \cup Ancestors(p) \cup {p} |->
        IF q = p THEN FileNode(EncodeNewlines(text))
        ELSE IF q \in DOMAIN fs THEN fs[q]
        ELSE DirNode]

\* patch_apply._read_text(p), and target.read_text(encoding="utf-8")
ReadText(fs, p) == DecodeNewlines(fs[p].d)

---------------------------------------------------------------------------
(* fs_theme.py: ThemeFS.read_text and ThemeFS.write_text *)

BLOCKED_ASSET_EXTS ==
    { <<".", e>> : e \in {"png", "jpg", "jpeg", "webp", "gif", "avif", "svg",
                          "mp4", "mov", "webm", "mp3", "wav", "pdf"} }

\* str.lower(): "PNG" is the one atom that holds upper-case letters.
Lower(s) == [k \in DOMAIN s |-> IF s[k] = "PNG" THEN "png" ELSE s[k]]

\* PurePath.name: the last part, or "" when there is none.
Name(parts) == IF parts = <<>> THEN <<>> ELSE parts[Len(parts)]

\* PurePath.suffix: from the last "." of the name on, unless that "." is the
\* first or the last character of the name.
Suffix(name) ==
    LET At(i) == IF 1 < i /\ i < Len(name) THEN SubSeq(name, i, Len(name)) ELSE <<>>
        Last(dots) == IF dots = {} THEN 0 ELSE CHOOSE k \in dots : \A j \in dots : j <= k
    IN  At(Last({k \in DOMAIN name : name[k] = "."}))

\* ThemeFS._block_asset_binary_types raises ThemeScopeError.
block_asset_binary_types(raw) ==
    LET Blocked(parts) ==
            /\ parts # <<>>
            /\ parts[1] = <<"assets">>
            /\ Lower(Suffix(Name(parts))) \in BLOCKED_ASSET_EXTS
    IN  Blocked(Parts(LStripSet(Strip(raw), {"/"})))

\* The characters of an atom of content: "data:image/" is that string, "xs"
\* is a run of 49989 letters x, every other atom is one character.
CharLen(a) ==
    CASE a = "data:image/" -> 11
      [] a = "xs" -> 49989
      [] OTHER -> 1

RECURSIVE StrLen(_)
\* len(content)
StrLen(content) ==
    IF content = <<>> THEN 0 ELSE CharLen(Head(content)) + StrLen(Tail(content))

\* fs_theme.py line 85: the length beyond which inline image data is refused.
inline_image_max_chars == 50000

\* "data:image/" in content and len(content) > 50_000
LargeInlineImage(content) ==
    Contains(content, <<"data:image/">>) /\ StrLen(content) > inline_image_max_chars

\* A mutant of write_text: the content is examined after the file is written.
write_text_then_check(fs, raw, content) ==
    LET raised(e) == [status |-> e, fs |-> fs]
        At(r) ==
            IF r.status # "returned" THEN raised("ThemeScopeError")
            ELSE IF MkdirFails(fs, r.p) \/ IsDir(fs, r.p) THEN raised("OSError")
            ELSE IF LargeInlineImage(content)
            THEN [status |-> "ThemeScopeError", fs |-> WriteFile(fs, r.p, content)]
            ELSE [status |-> "returned", fs |-> WriteFile(fs, r.p, content)]
    IN  IF block_asset_binary_types(raw) THEN raised("ThemeScopeError")
        ELSE At(ResolveRel(raw))

\* ThemeFS.write_text: [status, fs], the exception raised or "returned", and
\* the workspace it leaves.  mkdir fails when an ancestor is a file, and
\* Path.write_text when the target is a directory: both raise an OSError
\* before anything is created.
write_text(fs, raw, content) ==
    LET raised(e) == [status |-> e, fs |-> fs]
        At(r) ==
            IF r.status # "returned" THEN raised("ThemeScopeError")
            ELSE IF MkdirFails(fs, r.p) \/ IsDir(fs, r.p) THEN raised("OSError")
            ELSE [status |-> "returned", fs |-> WriteFile(fs, r.p, content)]
    IN  IF block_asset_binary_types(raw) THEN raised("ThemeScopeError")
        ELSE IF LargeInlineImage(content) THEN raised("ThemeScopeError")
        ELSE At(ResolveRel(raw))

\* ThemeFS.read_text: [status, text]
read_text(fs, raw) ==
    LET raised(e) == [status |-> e, text |-> <<>>]
        At(r) ==
            IF r.status # "returned" THEN raised("ThemeScopeError")
            ELSE IF ~Exists(fs, r.p) THEN raised("ThemeScopeError")
            ELSE IF IsDir(fs, r.p) THEN raised("OSError")
            ELSE [status |-> "returned", text |-> ReadText(fs, r.p)]
    IN  At(ResolveRel(raw))

\* One call of ThemeFS.write_text(tw_rel_path, tw_content).
WriteTextCall ==
    /\ twPc = "call"
    /\ LET Ret(r) ==
               /\ tw_fs' = r.fs
               /\ twOutcome' = r.status
               /\ twPc' = IF r.status = "returned" THEN "written" ELSE "raised"
       IN  Ret(write_text(tw_fs, tw_rel_path, tw_content))
    /\ UNCHANGED <<tw_rel_path, tw_content, tw_read, tw_fs0>>
    /\ UNCHANGED <<cmdVars, tfsVars, runVars, histVars, valVars>>
    /\ UNCHANGED moreVars

\* One call of ThemeFS.read_text(tw_rel_path), after the call of write_text.
ReadTextCall ==
    /\ twPc \in {"written", "raised"}
    /\ tw_read' = read_text(tw_fs, tw_rel_path)
    /\ twPc' = "read"
    /\ UNCHANGED <<tw_rel_path, tw_content, tw_fs, twOutcome, tw_fs0>>
    /\ UNCHANGED <<cmdVars, tfsVars, runVars, histVars, valVars>>
    /\ UNCHANGED moreVars

---------------------------------------------------------------------------
(* artifacts_fs.py *)

\* The artifact root, resolved: /work/run
ArtifactRoot == << <<"work">>, <<"run">> >>

\* ArtifactFS._resolve_rel: the Path returned, or the ArtifactScopeError raised.
ArtifactResolveRel(raw) ==
    LET Refused == [status |-> "ArtifactScopeError", p |-> NoPath]
        Checked(rel, p) ==
            IF TraversalRejected(rel) THEN Refused
            ELSE IF ~IsRelativeTo(p, ArtifactRoot) THEN Refused
            ELSE [status |-> "returned", p |-> p]
        Stripped(rel) == Checked(rel, ResolveUnder(ArtifactRoot, rel))
    IN  Stripped(LStripSet(Strip(raw), {"/"}))

\* After p.parent.mkdir(parents=True, exist_ok=True), where it succeeds.
Mkdir(fs, p) ==
    [q \in DOMAIN fs \cup Ancestors(p) |-> IF q \in DOMAIN fs THEN fs[q] ELSE DirNode]

\* ArtifactFS.write_text and ArtifactFS.write_base64: [status, p, fs].  data
\* is the text, or what base64.b64decode makes of the argument: its bytes, or
\* binascii.Error (ok is FALSE), raised after the directories were made.
ArtifactWrite(fs, op, raw, data) ==
    LET raised(e, f) == [status |-> e, p |-> NoPath, fs |-> f]
        At(r) ==
            IF r.status # "returned" THEN raised("ArtifactScopeError", fs)
            ELSE IF MkdirFails(fs, r.p) THEN raised("OSError", fs)
            ELSE IF op = "write_base64" /\ ~data.ok
            THEN raised("binascii.Error", Mkdir(fs, r.p))
            ELSE IF IsDir(fs, r.p) THEN raised("OSError", fs)
            ELSE [status |-> "returned", p |-> r.p, fs |-> WriteFile(fs, r.p, data.bytes)]
    IN  At(ArtifactResolveRel(raw))

\* One call of ArtifactFS.write_text(af_rel_path, ..) or write_base64(af_rel_path, ..).
ArtifactWriteCall ==
    /\ afPc = "call"
    /\ LET Ret(r) ==
               /\ af_fs' = r.fs
               /\ afOutcome' = [status |-> r.status, p |-> r.p]
               /\ afPc' = IF r.status = "returned" THEN "returned" ELSE "raised"
       IN  Ret(ArtifactWrite(af_fs, af_op, af_rel_path, af_data))
    /\ UNCHANGED <<af_op, af_rel_path, af_data, af_fs0>>
    /\ UNCHANGED <<coreVars, gateVars, loopVars, mcpVars>>

---------------------------------------------------------------------------
(* human_gate.py.  Here a str is a sequence of single characters. *)

\* "continue"
Keyword == <<"c", "o", "n", "t", "i", "n", "u", "e">>

\* "CONTINUE"
KEYWORD == <<"C", "O", "N", "T", "I", "N", "U", "E">>

\* str.lower() of one character, for the letters of the model.
LowerChar(c) ==
    CASE c = "C" -> "c" [] c = "O" -> "o" [] c = "N" -> "n" [] c = "T" -> "t"
      [] c = "I" -> "i" [] c = "U" -> "u" [] c = "E" -> "e" [] OTHER -> c

NoFile == [exists |-> FALSE, bytes |-> <<>>]
FileOf(bytes) == [exists |-> TRUE, bytes |-> bytes]

\* A mutant of LowerChars: the text is left in the case it was written in.
LowerCharsAsWritten(s) == s

\* str.lower()
LowerChars(s) == [k \in DOMAIN s |-> LowerChar(s[k])]

\* One round of wait_for_continue's loop: the file is looked at; when it holds
\* the keyword the file is emptied and the notes are returned, otherwise the
\* call sleeps poll_sec and looks again.  Each name is bound to the value of
\* the statement that assigns it:
\*    raw = signal.read_text(..).strip()
\*    low = raw.lower()
\*    notes = raw.replace("continue", "").replace("CONTINUE", "").strip()
GatePoll ==
    /\ gatePc = "polling"
    /\ IF signal.exists
       THEN \E text \in {DecodeNewlines(signal.bytes)} :
            \E raw \in {Strip(text)} :
            \E low \in {LowerChars(raw)} :
               IF Contains(low, Keyword)
               THEN \E once \in {ReplaceAll(raw, Keyword, <<>>)} :
                    \E twice \in {ReplaceAll(once, KEYWORD, <<>>)} :
                       /\ gate_notes' = Strip(twice)
                       /\ signal' = FileOf(<<>>)
                       /\ gate_raw' = signal.bytes
                       /\ gatePc' = "returned"
                       /\ human_count' = 0
               ELSE UNCHANGED <<signal, gatePc, gate_notes, gate_raw, human_count>>
       ELSE UNCHANGED <<signal, gatePc, gate_notes, gate_raw, human_count>>
    /\ UNCHANGED human_words
    /\ UNCHANGED <<coreVars, afVars, loopVars, mcpVars>>

\* The human edits the signal file while the agent waits: one more word at
\* its end, or the file is deleted.
HumanWrite ==
    /\ gatePc = "polling"
    /\ \/ /\ human_count < MaxWords
          /\ \E w \in human_words : signal' = FileOf(signal.bytes \o w)
          /\ human_count' = human_count + 1
       \/ /\ signal.exists
          /\ signal' = NoFile
          /\ human_count' = 0
    /\ UNCHANGED <<gatePc, gate_notes, gate_raw, human_words>>
    /\ UNCHANGED <<coreVars, afVars, loopVars, mcpVars>>

---------------------------------------------------------------------------
(* llm_openai_compat.py run_with_tools, run_loop.py call_tool and             *)
(* run_agent_loop.                                                         *)

\* A text the model sends as content: what json.loads makes of it ("object",
\* "array" for a non-empty array, "null", or "invalid" for no JSON at all),
\* the object's status and whether it carries admin_steps, and its length.
ContentOf(json, status, steps, len) ==
    [json |-> json, status |-> status, steps |-> steps, len |-> len]

NoContent == ContentOf("invalid", "absent", FALSE, 0)

\* A requested tool call: its correlation id, the tool's name ("" when the
\* call names none), and what the tool's code does when it is run: "returns",
\* "tool_error" (it returns a failure of its own), or the exception it raises.
CallOf(id, name, does) == [id |-> id, name |-> name, does |-> does]

\* A response of the model: _chat fails, or the message it returns.
ResponseOf(fails, tool_calls, content) ==
    [fails |-> fails, tool_calls |-> tool_calls, content |-> content]

NoResult == [ok |-> FALSE, error |-> ""]

\* A message of the conversation.
MessageOf(role, tool_calls, tool_call_id, result, content) ==
    [role |-> role, tool_calls |-> tool_calls, tool_call_id |-> tool_call_id,
     result |-> result, content |-> content]

SystemMessage == MessageOf("system", <<>>, "", NoResult, NoContent)

\* llm_openai_compat.py line 125: the characters of a non-JSON text that are kept.
edits_max_chars == 2000

\* A decision: the type of the value, its status ("absent" when it has
\* none), whether it carries admin_steps, and how many characters of the raw
\* text it holds in "edits".
DecisionOf(type, status, steps, edits) ==
    [type |-> type, status |-> status, steps |-> steps, edits |-> edits]

NoDecision == DecisionOf("None", "absent", FALSE, 0)

\* run_with_tools, lines 120-125: json.loads(content), or the decision put in
\* its place when json.loads raises.
DecisionFrom(content) ==
    CASE content.json = "object" -> DecisionOf("dict", content.status, content.steps, 0)
      [] content.json = "array" -> DecisionOf("list", "absent", FALSE, 0)
      [] content.json = "null" -> DecisionOf("None", "absent", FALSE, 0)
      [] OTHER -> DecisionOf("dict", "continue", FALSE, Min(content.len, edits_max_chars))

\* The names call_tool knows, lines 345-429.
ToolNames ==
    { "theme_read_file", "theme.read_file", "theme_write_file", "theme.write_file",
      "theme_list_files", "theme.list_files", "theme_search", "theme.search",
      "artifacts_write_text", "artifacts.write_text",
      "artifacts_write_base64", "artifacts.write_base64",
      "verify_run", "verify.run",
      "human_pause_for_admin_updates", "human.pause_for_admin_updates",
      "mcp_figma_list_tools", "mcp.figma.list_tools", "mcp_figma_call", "mcp.figma.call",
      "mcp_shopify_list_tools", "mcp.shopify.list_tools",
      "mcp_shopify_call", "mcp.shopify.call" }

PauseTools == { "human_pause_for_admin_updates", "human.pause_for_admin_updates" }

\* The exceptions of line 433.
ScopeExceptions == { "ThemeScopeError", "ArtifactScopeError", "CommandNotAllowed" }

\* A mutant of call_tool: line 435 is missing, only the exceptions of line 433
\* are caught.
call_tool_scope_only(name, does) ==
    LET failure(msg) == [status |-> "returned", result |-> [ok |-> FALSE, error |-> msg]]
    IN  IF name \notin ToolNames THEN failure("Unknown tool")
        ELSE IF does = "returns"
        THEN [status |-> "returned", result |-> [ok |-> TRUE, error |-> ""]]
        ELSE IF does = "tool_error" THEN failure("tool_error")
        ELSE IF does \in ScopeExceptions THEN failure(does)
        ELSE [status |-> does, result |-> NoResult]

\* call_tool(name, args): [status, result].  Every exception the tool's code
\* raises is caught (lines 433-436) and becomes a failure result.
call_tool(name, does) ==
    LET failure(msg) == [status |-> "returned", result |-> [ok |-> FALSE, error |-> msg]]
    IN  IF name \notin ToolNames THEN failure("Unknown tool")
        ELSE IF does = "returns"
        THEN [status |-> "returned", result |-> [ok |-> TRUE, error |-> ""]]
        ELSE IF does = "tool_error" THEN failure("tool_error")
        ELSE failure(does)

LogOf(ev, x) == [ev |-> ev, x |-> x]

\* The subprocesses a run may start: the two MCP peers and the dev server.
Subprocesses == {"figma", "shopify", "dev"}

NoProcs == [cfg |-> {}, started |-> {}, held |-> {}, stopped |-> {}, launched |-> {}]

LaunchOf(site, via) == [site |-> site, via |-> via]

SearchTools == {"theme_search", "theme.search"}

\* The process a tool call launches.  Theme search calls run_allowed, line
\* 358, which launches the command unless CommandNotAllowed is raised.
AfterToolLaunch(ps, call) ==
    IF call.name \in SearchTools /\ call.does \in {"returns", "TimeoutExpired"}
    THEN [ps EXCEPT !.launched = @ \cup {LaunchOf("theme_search", "run_allowed")}]
    ELSE ps

\* A mutant of Cleanup: every subprocess that was started is terminated.
CleanupStarted(ps) == [ps EXCEPT !.stopped = ps.started]

\* The cleanup, lines 478-495: stop or close what the run holds a handle of.
Cleanup(ps) == [ps EXCEPT !.stopped = ps.held]

\* run_agent_loop, lines 290-339: the MCP clients and the dev server are
\* started as configured.  A peer whose handshake fails has been started, and
\* from_cmd's exception ends the run; start_theme_dev's ThemeDevError is
\* caught, any other exception of it ends the run.
LoopSetup ==
    /\ loopPc = "setup"
    /\ \E figma_ok, shopify_ok \in BOOLEAN, dev \in {"started", "ThemeDevError", "OSError"} :
          LET figma == "figma" \in lp_procs.cfg
              shopify == "shopify" \in lp_procs.cfg /\ (figma => figma_ok)
              server == /\ "dev" \in lp_procs.cfg
                        /\ figma => figma_ok
                        /\ "shopify" \in lp_procs.cfg => shopify_ok
              started == (IF figma THEN {"figma"} ELSE {})
                            \cup (IF shopify THEN {"shopify"} ELSE {})
                            \cup (IF server /\ dev # "OSError" THEN {"dev"} ELSE {})
              held == (IF figma /\ figma_ok THEN {"figma"} ELSE {})
                         \cup (IF shopify /\ shopify_ok THEN {"shopify"} ELSE {})
                         \cup (IF server /\ dev = "started" THEN {"dev"} ELSE {})
              raised == IF figma /\ ~figma_ok THEN "MCPError"
                        ELSE IF shopify /\ ~shopify_ok THEN "MCPError"
                        ELSE IF server /\ dev = "OSError" THEN "OSError"
                        ELSE ""
          IN  /\ (~figma => figma_ok) /\ (~shopify => shopify_ok)
              /\ (~server => dev = "started")
              /\ lp_procs' = [lp_procs EXCEPT
                                  !.started = started, !.held = held,
                                  !.launched = {LaunchOf(p, "Popen") : p \in started}]
              /\ loopPc' = IF raised = "" THEN "iter" ELSE "raised"
              /\ loopOutcome' = raised
    /\ UNCHANGED <<lp_max_iters, lp_max_trips, llm_answers, messages, lp_i, lp_trips,
                   pending, decision, lp_files, lp_log>>
    /\ UNCHANGED <<coreVars, afVars, gateVars, mcpVars>>

\* A mutant of LoopHead: the for statement never runs out of iterations.
LoopHeadUnbounded ==
    /\ loopPc = "iter"
    /\ lp_i' = lp_i + 1
    /\ lp_trips' = 0
    /\ loopPc' = "chat"
    /\ UNCHANGED <<lp_log, lp_procs>>
    /\ UNCHANGED <<lp_max_iters, lp_max_trips, llm_answers, messages, pending,
                   decision, loopOutcome, lp_files>>
    /\ UNCHANGED <<coreVars, afVars, gateVars, mcpVars>>

\* run_agent_loop's for statement, line 452, and the cleanup after the loop.
LoopHead ==
    /\ loopPc = "iter"
    /\ IF lp_i < lp_max_iters
       THEN /\ lp_i' = lp_i + 1
            /\ lp_trips' = 0
            /\ loopPc' = "chat"
            /\ lp_log' = lp_log
            /\ lp_procs' = lp_procs
       ELSE /\ loopPc' = "returned"
            /\ lp_log' = Append(lp_log, LogOf("return", "exhausted"))
            /\ lp_procs' = Cleanup(lp_procs)
            /\ UNCHANGED <<lp_i, lp_trips>>
    /\ UNCHANGED <<lp_max_iters, lp_max_trips, llm_answers, messages, pending,
                   decision, loopOutcome, lp_files>>
    /\ UNCHANGED <<coreVars, afVars, gateVars, mcpVars>>

\* run_with_tools' for statement, line 81, with the request to the model and
\* what is done with its response up to the first tool call, lines 82-92 and
\* 119-129.
ChatRound ==
    /\ loopPc = "chat"
    /\ IF lp_trips >= lp_max_trips
       THEN /\ loopPc' = "raised"
            /\ loopOutcome' = "LLMError"
            /\ lp_log' = Append(lp_log, LogOf("raise", "LLMError"))
            /\ UNCHANGED <<messages, pending, decision, lp_trips>>
       ELSE \E resp \in llm_answers :
               /\ Len(SelectSeq(lp_log, LAMBDA e : e.ev = "request")) < MaxRequests
               /\ lp_trips' = lp_trips + 1
               /\ IF resp.fails
                  THEN /\ loopPc' = "raised"
                       /\ loopOutcome' = "LLMError"
                       /\ lp_log' = lp_log \o <<LogOf("request", ""), LogOf("raise", "LLMError")>>
                       /\ UNCHANGED <<messages, pending, decision>>
                  ELSE IF resp.tool_calls # <<>>
                  THEN /\ messages' = Append(messages,
                              MessageOf("assistant", resp.tool_calls, "", NoResult, resp.content))
                       /\ pending' = resp.tool_calls
                       /\ loopPc' = "tools"
                       /\ lp_log' = Append(lp_log, LogOf("request", ""))
                       /\ UNCHANGED <<decision, loopOutcome>>
                  ELSE /\ decision' = DecisionFrom(resp.content)
                       /\ messages' = Append(messages,
                              MessageOf("assistant", <<>>, "", NoResult, resp.content))
                       /\ loopPc' = "decided"
                       /\ lp_log' = Append(lp_log, LogOf("request", ""))
                       /\ UNCHANGED <<pending, loopOutcome>>
    /\ UNCHANGED <<lp_procs, lp_max_iters, lp_max_trips, llm_answers, lp_i, lp_files>>
    /\ UNCHANGED <<coreVars, afVars, gateVars, mcpVars>>

\* A mutant of ToolMessage: the result is appended without the call's id.
ToolMessageNoId(call, result) == MessageOf("tool", <<>>, "", result, NoContent)

\* The message that carries a tool call's result, lines 109-115.
ToolMessage(call, result) == MessageOf("tool", <<>>, call.id, result, NoContent)

\* One round of the loop over the tool calls, lines 95-115.  The pause tool,
\* when its code runs on, writes admin_steps.md and waits for the human.
ToolCallStep ==
    /\ loopPc = "tools"
    /\ LET call == Head(pending)
           Done(r) ==
               IF r.status = "returned"
               THEN /\ messages' = Append(messages, ToolMessage(call, r.result))
                    /\ pending' = Tail(pending)
                    /\ loopPc' = IF Tail(pending) = <<>> THEN "chat" ELSE "tools"
                    /\ lp_log' = Append(lp_log, LogOf("tool", call.id))
                    /\ UNCHANGED <<loopOutcome, lp_files, gateVars>>
               ELSE /\ loopPc' = "raised"
                    /\ loopOutcome' = r.status
                    /\ lp_log' = lp_log \o <<LogOf("tool", call.id), LogOf("raise", r.status)>>
                    /\ UNCHANGED <<messages, pending, lp_files, gateVars>>
       IN  IF call.name = ""
           THEN Done([status |-> "returned",
                      result |-> [ok |-> FALSE, error |-> "Missing tool name."]])
           ELSE IF call.name \in PauseTools /\ call.does = "returns"
           THEN /\ lp_files' = lp_files \cup {<<"admin_steps.md">>}
                /\ gatePc' = "polling"
                /\ loopPc' = "tool_paused"
                /\ lp_log' = lp_log \o <<LogOf("tool", call.id), LogOf("pause", "tool")>>
                /\ UNCHANGED <<messages, pending, loopOutcome, signal, gate_notes,
                               gate_raw, human_words, human_count>>
           ELSE Done(call_tool(call.name, call.does))
    /\ lp_procs' = AfterToolLaunch(lp_procs, Head(pending))
    /\ UNCHANGED <<lp_max_iters, lp_max_trips, llm_answers, lp_i, lp_trips, decision>>
    /\ UNCHANGED <<coreVars, afVars, mcpVars>>

\* The pause tool returns once wait_for_continue has returned, line 401.
ToolResume ==
    /\ loopPc = "tool_paused"
    /\ gatePc = "returned"
    /\ gatePc' = "idle"
    /\ messages' = Append(messages,
            ToolMessage(Head(pending), [ok |-> TRUE, error |-> ""]))
    /\ pending' = Tail(pending)
    /\ loopPc' = IF Tail(pending) = <<>> THEN "chat" ELSE "tools"
    /\ lp_log' = Append(lp_log, LogOf("resume", "tool"))
    /\ UNCHANGED <<lp_procs, lp_max_iters, lp_max_trips, llm_answers, lp_i, lp_trips, decision,
                   loopOutcome, lp_files>>
    /\ UNCHANGED <<signal, gate_notes, gate_raw, human_words, human_count>>
    /\ UNCHANGED <<coreVars, afVars, mcpVars>>

\* A mutant of StatusOf: a decision that is no object has no status.
StatusOfAny(d) == IF d.type = "dict" THEN d.status ELSE "absent"

\* (decision or {}).get("status"), line 464: the status, "absent" when there
\* is none, or AttributeError for a value that is neither an object nor falsy.
StatusOf(d) ==
    CASE d.type = "dict" -> d.status
      [] d.type = "None" -> "absent"
      [] OTHER -> "AttributeError"

\* run_agent_loop, lines 463-476: what is done with the decision.
Decide ==
    /\ loopPc = "decided"
    /\ LET On(status) ==
               CASE status = "AttributeError" ->
                        /\ loopPc' = "raised"
                        /\ loopOutcome' = "AttributeError"
                        /\ lp_procs' = lp_procs
                        /\ lp_files' = lp_files \cup {<<"decision", lp_i>>}
                        /\ lp_log' = lp_log \o <<LogOf("decision", status),
                                                 LogOf("raise", "AttributeError")>>
                        /\ UNCHANGED gateVars
                 [] status = "done" ->
                        /\ loopPc' = "returned"
                        /\ lp_procs' = Cleanup(lp_procs)
                        /\ lp_files' = lp_files \cup {<<"decision", lp_i>>}
                        /\ lp_log' = lp_log \o <<LogOf("decision", status),
                                                 LogOf("return", "done")>>
                        /\ UNCHANGED <<loopOutcome, gateVars>>
                 [] status = "needs_human" ->
                        /\ loopPc' = "paused"
                        /\ lp_procs' = lp_procs
                        /\ gatePc' = "polling"
                        /\ lp_files' = lp_files \cup {<<"decision", lp_i>>}
                               \cup (IF decision.steps THEN {<<"admin_steps.md">>} ELSE {})
                        /\ lp_log' = lp_log \o <<LogOf("decision", status),
                                                 LogOf("pause", "loop")>>
                        /\ UNCHANGED <<loopOutcome, signal, gate_notes, gate_raw,
                                       human_words, human_count>>
                 [] OTHER ->
                        /\ loopPc' = "iter"
                        /\ lp_files' = lp_files \cup {<<"decision", lp_i>>}
                        /\ lp_procs' = lp_procs
                        /\ lp_log' = Append(lp_log, LogOf("decision", status))
                        /\ UNCHANGED <<loopOutcome, gateVars>>
       IN  On(StatusOf(decision))
    /\ UNCHANGED <<lp_max_iters, lp_max_trips, llm_answers, messages, lp_i, lp_trips,
                   pending, decision>>
    /\ UNCHANGED <<coreVars, afVars, mcpVars>>

\* A mutant of LoopResume: the loop goes on without wait_for_continue's return.
LoopResumeWithoutGate ==
    /\ loopPc = "paused"
    /\ gatePc' = "idle"
    /\ loopPc' = "iter"
    /\ lp_log' = Append(lp_log, LogOf("resume", "loop"))
    /\ UNCHANGED <<lp_procs, lp_max_iters, lp_max_trips, llm_answers, messages, lp_i, lp_trips,
                   pending, decision, loopOutcome, lp_files>>
    /\ UNCHANGED <<signal, gate_notes, gate_raw, human_words, human_count>>
    /\ UNCHANGED <<coreVars, afVars, mcpVars>>

\* run_agent_loop, lines 475-476: wait_for_continue has returned.
LoopResume ==
    /\ loopPc = "paused"
    /\ gatePc = "returned"
    /\ gatePc' = "idle"
    /\ loopPc' = "iter"
    /\ lp_log' = Append(lp_log, LogOf("resume", "loop"))
    /\ UNCHANGED <<lp_procs, lp_max_iters, lp_max_trips, llm_answers, messages, lp_i, lp_trips,
                   pending, decision, loopOutcome, lp_files>>
    /\ UNCHANGED <<signal, gate_notes, gate_raw, human_words, human_count>>
    /\ UNCHANGED <<coreVars, afVars, mcpVars>>

---------------------------------------------------------------------------
(* mcp_stdio.py MCPClient.                                                 *)

\* What the peer's next line is, as readline and json.loads see it: a
\* response with a result object ("result"), the same with an id that is not
\* the request's ("result_other_id"), a response with an error ("error"), a
\* message with no result or a null one ("no_result"), a line that is no
\* JSON ("invalid"), or the end of the stream ("eof").
PeerLines == {"result", "result_other_id", "error", "no_result", "invalid", "eof"}

WrittenLine(method, id, ok) ==
    [dir |-> "write", method |-> method, id |-> id, ok |-> ok, line |-> ""]

ReadLine(line) ==
    [dir |-> "read", method |-> "", id |-> 0, ok |-> TRUE, line |-> line]

\* A mutant of request: a response with an error is taken as the result.
request_ignoring_error(id, wire, method, wrote, line) ==
    IF ~wrote
    THEN [status |-> "MCPError", id |-> id + 1,
          wire |-> Append(wire, WrittenLine(method, id + 1, FALSE))]
    ELSE [status |-> IF line \in {"result", "result_other_id", "error"}
                     THEN "returned" ELSE "MCPError",
          id |-> id + 1,
          wire |-> wire \o <<WrittenLine(method, id + 1, TRUE), ReadLine(line)>>]

\* _request(method, params), lines 92-122, on a client whose _id is id: the
\* request is written with the next id and one line is read; `wrote` says
\* whether the write and the flush went through, `line` what was read.
\* [status, id, wire].
request(id, wire, method, wrote, line) ==
    IF ~wrote
    THEN [status |-> "MCPError", id |-> id + 1,
          wire |-> Append(wire, WrittenLine(method, id + 1, FALSE))]
    ELSE [status |-> IF line \in {"result", "result_other_id"}
                     THEN "returned" ELSE "MCPError",
          id |-> id + 1,
          wire |-> wire \o <<WrittenLine(method, id + 1, TRUE), ReadLine(line)>>]

\* _notify(method), lines 75-90: the notification is written with no id, and
\* nothing is read.  [status, wire].
notify(wire, method, wrote) ==
    [status |-> IF wrote THEN "returned" ELSE "MCPError",
     wire |-> Append(wire, WrittenLine(method, 0, wrote))]

\* MCPClient.from_cmd(cmd, name), lines 27-58.
from_cmd ==
    /\ mcpPc = "idle"
    /\ mcp_calls' = mcp_calls
    /\ IF mcp_cmd = ""
       THEN /\ mcpPc' = "raised"
            /\ mcp_last' = "MCPError"
            /\ UNCHANGED <<mcp_id, mcp_wire>>
       ELSE \E wrote1 \in BOOLEAN, line \in PeerLines, wrote2 \in BOOLEAN :
            \E init \in {request(0, <<>>, "initialize", wrote1, line)} :
               IF init.status # "returned"
               THEN /\ mcpPc' = "raised"
                    /\ mcp_last' = init.status
                    /\ mcp_id' = init.id
                    /\ mcp_wire' = init.wire
               ELSE \E ack \in {notify(init.wire, "notifications/initialized", wrote2)} :
                       /\ mcpPc' = IF ack.status = "returned" THEN "ready" ELSE "raised"
                       /\ mcp_last' = ack.status
                       /\ mcp_id' = init.id
                       /\ mcp_wire' = ack.wire
    /\ UNCHANGED mcp_cmd
    /\ UNCHANGED <<coreVars, afVars, gateVars, loopVars, sharedVars>>

\* What the peer of a client can do with a request: anything while it runs;
\* once close has terminated it, the write fails or the stream has ended.
PeerAnswers ==
    IF mcpPc = "closed"
    THEN {<<FALSE, "eof">>, <<TRUE, "eof">>}
    ELSE BOOLEAN \X PeerLines

\* MCPClient.list_tools(), lines 66-69.
list_tools ==
    /\ mcpPc \in {"ready", "closed"}
    /\ mcp_calls < MaxMcpCalls
    /\ \E a \in PeerAnswers :
       \E r \in {request(mcp_id, mcp_wire, "tools/list", a[1], a[2])} :
          /\ mcp_id' = r.id
          /\ mcp_wire' = r.wire
          /\ mcp_last' = r.status
    /\ mcp_calls' = mcp_calls + 1
    /\ UNCHANGED <<mcp_cmd, mcpPc>>
    /\ UNCHANGED <<coreVars, afVars, gateVars, loopVars, sharedVars>>

\* MCPClient.call_tool(tool_name, arguments), lines 71-73.
mcp_call_tool ==
    /\ mcpPc \in {"ready", "closed"}
    /\ mcp_calls < MaxMcpCalls
    /\ \E a \in PeerAnswers :
       \E r \in {request(mcp_id, mcp_wire, "tools/call", a[1], a[2])} :
          /\ mcp_id' = r.id
          /\ mcp_wire' = r.wire
          /\ mcp_last' = r.status
    /\ mcp_calls' = mcp_calls + 1
    /\ UNCHANGED <<mcp_cmd, mcpPc>>
    /\ UNCHANGED <<coreVars, afVars, gateVars, loopVars, sharedVars>>

\* MCPClient.close(), lines 60-64.
close ==
    /\ mcpPc = "ready"
    /\ mcpPc' = "closed"
    /\ mcp_last' = "returned"
    /\ UNCHANGED <<mcp_cmd, mcp_id, mcp_wire, mcp_calls>>
    /\ UNCHANGED <<coreVars, afVars, gateVars, loopVars, sharedVars>>

\* ---- one client shared by several callers

Callers == 1..MaxCallers

\* A line of the peer's output as _request sees it: the end of the stream
\* ("eof"), a line that is no JSON ("invalid"), JSON that is no object
\* ("array"), or an object with its error member ("absent", "null" or
\* "populated"), its result member ("absent", "null" or "value") and its id.
LineOf(kind, error, result, id) ==
    [kind |-> kind, error |-> error, result |-> result, id |-> id]

NoLine == LineOf("none", "absent", "absent", 0)

EndOfStream == LineOf("eof", "absent", "absent", 0)

\* What a peer may write in answer to the request with this id.
PeerReplies(id) ==
    { EndOfStream, LineOf("invalid", "absent", "absent", 0),
      LineOf("object", "absent", "value", id),
      LineOf("object", "null", "value", id),
      LineOf("object", "populated", "value", id),
      LineOf("object", "absent", "absent", id) }

\* A mutant of ResponseStatus: the error member is not looked at.
ResponseStatusNoError(line) ==
    IF line.kind = "object" /\ line.result = "value" THEN "returned" ELSE "MCPError"

\* _request, lines 108-122, from the line read on: how the request ends.
\* Every exception raised on the way is raised again as MCPError.
ResponseStatus(line) ==
    IF line.kind = "eof" THEN "MCPError"
    ELSE IF line.kind = "invalid" THEN "MCPError"
    ELSE IF line.kind # "object" THEN "MCPError"
    ELSE IF line.error = "populated" THEN "MCPError"
    ELSE IF line.result \in {"absent", "null"} THEN "MCPError"
    ELSE "returned"

ThreadOf(at, id, got, status) == [at |-> at, id |-> id, got |-> got, status |-> status]

IdleThread == ThreadOf("idle", 0, NoLine, "")

\* An entry of the trace: the caller, what it did ("take", "write", "read"),
\* its req_id and, for a read, the id the line read carries (0: none).
TraceOf(caller, op, id, answers) ==
    [caller |-> caller, op |-> op, id |-> id, answers |-> answers]

\* A mutant of TakeId: the counter is read and written without the lock, and
\* the value a caller read may be one another caller has used since.
TakeIdUnlocked(c) ==
    /\ mcpPc = "ready"
    /\ mcp_threads[c].at = "idle"
    /\ mcp_calls < MaxMcpCalls
    /\ \E seen \in 0..mcp_id :
          /\ mcp_id' = seen + 1
          /\ mcp_threads' = [mcp_threads EXCEPT ![c] = ThreadOf("took_id", seen + 1, NoLine, "")]
          /\ mcp_trace' = Append(mcp_trace, TraceOf(c, "take", seen + 1, 0))
    /\ mcp_calls' = mcp_calls + 1
    /\ UNCHANGED <<mcp_cmd, mcpPc, mcp_wire, mcp_last, mcp_inbox, mcp_pipe>>
    /\ UNCHANGED <<coreVars, afVars, gateVars, loopVars>>

\* _request, lines 93-95: under the lock, the counter is incremented and its
\* new value is the caller's req_id.
TakeId(c) ==
    /\ mcpPc = "ready"
    /\ mcp_threads[c].at = "idle"
    /\ mcp_calls < MaxMcpCalls
    /\ mcp_id' = mcp_id + 1
    /\ mcp_threads' = [mcp_threads EXCEPT ![c] = ThreadOf("took_id", mcp_id + 1, NoLine, "")]
    /\ mcp_trace' = Append(mcp_trace, TraceOf(c, "take", mcp_id + 1, 0))
    /\ mcp_calls' = mcp_calls + 1
    /\ UNCHANGED <<mcp_cmd, mcpPc, mcp_wire, mcp_last, mcp_inbox, mcp_pipe>>
    /\ UNCHANGED <<coreVars, afVars, gateVars, loopVars>>

\* _request, lines 97-105: outside the lock, the request line is written and
\* flushed; a write that fails ends the request with MCPError.
WriteRequest(c) ==
    /\ mcp_threads[c].at = "took_id"
    /\ \E wrote \in BOOLEAN :
          IF wrote
          THEN /\ mcp_threads' = [mcp_threads EXCEPT ![c].at = "wrote"]
               /\ mcp_inbox' = Append(mcp_inbox, mcp_threads[c].id)
               /\ mcp_trace' = Append(mcp_trace, TraceOf(c, "write", mcp_threads[c].id, 0))
          ELSE /\ mcp_threads' = [mcp_threads EXCEPT ![c].at = "done", ![c].status = "MCPError"]
               /\ UNCHANGED <<mcp_inbox, mcp_trace>>
    /\ UNCHANGED <<mcp_cmd, mcpPc, mcp_id, mcp_wire, mcp_calls, mcp_last, mcp_pipe>>
    /\ UNCHANGED <<coreVars, afVars, gateVars, loopVars>>

\* _request, lines 107-122: outside the lock, the next line of the peer's
\* output is read, whichever request it answers, and the request ends.
ReadResponse(c) ==
    /\ mcp_threads[c].at = "wrote"
    /\ mcp_pipe # <<>>
    /\ \E line \in {Head(mcp_pipe)} :
          /\ mcp_threads' = [mcp_threads EXCEPT
                 ![c] = ThreadOf("done", mcp_threads[c].id, line, ResponseStatus(line))]
          /\ mcp_pipe' = IF line = EndOfStream THEN mcp_pipe ELSE Tail(mcp_pipe)
          /\ mcp_trace' = Append(mcp_trace, TraceOf(c, "read", mcp_threads[c].id, line.id))
    /\ UNCHANGED <<mcp_cmd, mcpPc, mcp_id, mcp_wire, mcp_calls, mcp_last, mcp_inbox>>
    /\ UNCHANGED <<coreVars, afVars, gateVars, loopVars>>

\* The peer answers the requests it has read in their order, each with a line
\* that carries the request's id, until it ends its output.
PeerReply ==
    /\ mcp_inbox # <<>>
    /\ IF mcp_pipe = <<>> THEN TRUE ELSE mcp_pipe[Len(mcp_pipe)] # EndOfStream
    /\ \E line \in PeerReplies(Head(mcp_inbox)) : mcp_pipe' = Append(mcp_pipe, line)
    /\ mcp_inbox' = Tail(mcp_inbox)
    /\ UNCHANGED <<mcp_cmd, mcpPc, mcp_id, mcp_wire, mcp_calls, mcp_last, mcp_threads, mcp_trace>>
    /\ UNCHANGED <<coreVars, afVars, gateVars, loopVars>>

---------------------------------------------------------------------------
(* plan_policy.py: paths *)

DISALLOWED_PREFIXES ==
    { <<".", "git", "/">>, <<".", "github", "/">>,
      <<".", "cursor", "/">>, <<".", "vscode", "/">> }

DISALLOWED_EXACT == { <<"config", "/", "settings_data", ".", "json">> }

ALLOWED_TOP_LEVEL_DIRS ==
    { <<"assets">>, <<"blocks">>, <<"config">>, <<"layout">>,
      <<"locales">>, <<"sections">>, <<"snippets">>, <<"templates">> }

ALLOWED_OP_TYPES ==
    {"insert_after", "insert_before", "replace_once", "create_file", "apply_patch"}

\* ALLOWED_CREATE_EXTS_BY_DIR.get(top): the empty set stands for None.
ALLOWED_CREATE_EXTS_BY_DIR(top) ==
    CASE top \in {<<"sections">>, <<"snippets">>, <<"blocks">>, <<"layout">>} ->
            { <<".", "liquid">> }
      [] top = <<"templates">> -> { <<".", "json">>, <<".", "liquid">> }
      [] top = <<"assets">> ->
            { <<".", "js">>, <<".", "css">>, <<".", "json">>, <<".", "svg">>,
              <<".", "png">>, <<".", "jpg">>, <<".", "jpeg">>, <<".", "webp">>,
              <<".", "woff">>, <<".", "woff2">> }
      [] top \in {<<"config">>, <<"locales">>} -> { <<".", "json">> }
      [] OTHER -> {}

RECURSIVE CollapseSlashes(_)
\* while "//" in p: p = p.replace("//", "/")
CollapseSlashes(p) ==
    IF Contains(p, <<"/", "/">>)
    THEN CollapseSlashes(ReplaceAll(p, <<"/", "/">>, <<"/">>))
    ELSE p

\* A mutant of NormRelPath: "//" is replaced in one pass, not until none is left.
NormRelPathOnePass(p) ==
    ReplaceAll(LStripSet(ReplaceAtom(p, "\\", "/"), {"/"}), <<"/", "/">>, <<"/">>)

\* _norm_rel_path
NormRelPath(p) == CollapseSlashes(LStripSet(ReplaceAtom(p, "\\", "/"), {"/"}))

\* A mutant of IsSafeThemePath: the first segment is not looked up.
IsSafeThemePathAnyTop(raw) ==
    LET Safe(rel) ==
            IF \/ StartsWith(rel, <<".", ".", "/">>)
               \/ Contains(rel, <<"/", ".", ".", "/">>)
               \/ rel \in {<<".", ".">>, <<>>}
            THEN FALSE
            ELSE IF \E pref \in DISALLOWED_PREFIXES : StartsWith(rel, pref) THEN FALSE
            ELSE IF rel \in DISALLOWED_EXACT THEN FALSE
            ELSE TRUE
    IN  Safe(NormRelPath(raw))

\* _is_safe_theme_path
IsSafeThemePath(raw) ==
    LET Safe(rel) ==
            IF \/ StartsWith(rel, <<".", ".", "/">>)
               \/ Contains(rel, <<"/", ".", ".", "/">>)
               \/ rel \in {<<".", ".">>, <<>>}
            THEN FALSE
            ELSE IF SplitFirst(rel, "/") \notin ALLOWED_TOP_LEVEL_DIRS THEN FALSE
            ELSE IF \E pref \in DISALLOWED_PREFIXES : StartsWith(rel, pref) THEN FALSE
            ELSE IF rel \in DISALLOWED_EXACT THEN FALSE
            ELSE TRUE
    IN  Safe(NormRelPath(raw))

\* A mutant of ValidateCreateExt: any extension is allowed in any directory.
ValidateCreateExtAny(raw) == TRUE

\* _validate_create_ext: TRUE when it returns, FALSE when it raises PlanError.
ValidateCreateExt(raw) ==
    LET Allowed(exts, ext) == exts # {} /\ ext \in exts
        ExtAt(rel, dot) == IF dot # 0 THEN Drop(rel, dot - 1) ELSE <<>>
        Checked(rel) ==
            Allowed(ALLOWED_CREATE_EXTS_BY_DIR(SplitFirst(rel, "/")),
                    ExtAt(rel, RFind(rel, <<".">>)))
    IN  Checked(NormRelPath(raw))

---------------------------------------------------------------------------
(* patch_unified.py.  A patch text is held as parse_unified_diff returns it:  *)
(* a list of FilePatch [path_old, path_new, hunks], each Hunk                 *)
(* [old_start, old_len, new_start, new_len, lines], each line a str whose     *)
(* first character is its tag.                                                *)

\* The characters str.splitlines ends a line at, besides "\r" and "\r\n":
\* \n, \v, \f, \x1c, \x1d, \x1e, \x85, \u2028, \u2029.
LineBreaks == {"LF", "VT", "FF", "FS", "GS", "RS", "NEL", "LS", "PS"}

RECURSIVE SplitLinesFrom(_, _)
\* str.splitlines(keepends=False), the line s[..] being read is cur.
SplitLinesFrom(text, cur) ==
    IF text = <<>> THEN (IF cur = <<>> THEN <<>> ELSE <<cur>>)
    ELSE IF Head(text) \in LineBreaks THEN <<cur>> \o SplitLinesFrom(Tail(text), <<>>)
    ELSE IF Head(text) = "CR"
         THEN IF Len(text) >= 2 /\ text[2] = "LF"
              THEN <<cur>> \o SplitLinesFrom(Drop(text, 2), <<>>)
              ELSE <<cur>> \o SplitLinesFrom(Tail(text), <<>>)
    ELSE SplitLinesFrom(Tail(text), Append(cur, Head(text)))

\* original.splitlines(keepends=False)
SplitLines(text) == SplitLinesFrom(text, <<>>)

RECURSIVE JoinLines(_)
\* "\n".join(out)
JoinLines(lines) ==
    IF lines = <<>> THEN <<>>
    ELSE IF Len(lines) = 1 THEN lines[1]
    ELSE lines[1] \o <<"LF">> \o JoinLines(Tail(lines))

\* A mutant of LineMismatch: only running past the last line is a mismatch.
LineMismatchPastEndOnly(src, idx, content) == idx >= Len(src)

\* Lines 148 and 154: src_idx >= len(src) or src[src_idx] != content
LineMismatch(src, idx, content) == idx >= Len(src) \/ src[idx + 1] # content

RECURSIVE ApplyHunkLines(_, _, _)
\* The loop over h.lines (lines 140-160); st is [status, out, idx], idx being
\* the 0-based src_idx.
ApplyHunkLines(src, st, lines) ==
    IF lines = <<>> \/ st.status # "ok" THEN st
    ELSE
      LET hl == Head(lines)
          tag == hl[1]
          content == Tail(hl)
          mismatch == LineMismatch(src, st.idx, content)
      IN  IF hl = <<>> THEN ApplyHunkLines(src, st, Tail(lines))
          ELSE IF tag = " "
          THEN IF mismatch
               THEN [st EXCEPT !.status = "PatchError"]
               ELSE ApplyHunkLines(src,
                       [status |-> "ok", out |-> Append(st.out, src[st.idx + 1]),
                        idx |-> st.idx + 1], Tail(lines))
          ELSE IF tag = "-"
          THEN IF mismatch
               THEN [st EXCEPT !.status = "PatchError"]
               ELSE ApplyHunkLines(src, [st EXCEPT !.idx = st.idx + 1], Tail(lines))
          ELSE IF tag = "+"
          THEN ApplyHunkLines(src, [st EXCEPT !.out = Append(st.out, content)],
                              Tail(lines))
          ELSE [st EXCEPT !.status = "PatchError"]

\* Lines 132-137: copy the unchanged lines up to the hunk's declared start.
\* src[src_idx] raises IndexError when the start lies beyond the last line.
CopyToHunkStart(src, st, h) ==
    LET To(target_idx) ==
            IF st.idx >= target_idx THEN st
            ELSE IF target_idx > Len(src) THEN [st EXCEPT !.status = "IndexError"]
            ELSE [st EXCEPT !.out = st.out \o SubSeq(src, st.idx + 1, target_idx),
                            !.idx = target_idx]
    IN  To(Max(h.old_start - 1, 0))

RECURSIVE ApplyHunks(_, _, _)
\* The loop over hunks (lines 130-160).
ApplyHunks(src, st, hunks) ==
    LET Body(at) ==
            IF at.status # "ok" THEN at
            ELSE ApplyHunks(src, ApplyHunkLines(src, at, Head(hunks).lines),
                            Tail(hunks))
    IN  IF hunks = <<>> \/ st.status # "ok" THEN st
        ELSE Body(CopyToHunkStart(src, st, Head(hunks)))

\* _apply_hunks_to_text: [status, text]; status is "ok", or the exception raised.
ApplyHunksToText(original, hunks) ==
    LET Result(src, st) ==
            IF st.status # "ok" THEN [status |-> st.status, text |-> <<>>]
            ELSE [status |-> "ok",
                  text |-> JoinLines(st.out \o Drop(src, st.idx))
                           \o (IF EndsWith(original, <<"LF">>) THEN <<"LF">> ELSE <<>>)]
        Split(src) ==
            Result(src, ApplyHunks(src, [status |-> "ok", out |-> <<>>, idx |-> 0], hunks))
    IN  Split(SplitLines(original))

\* apply_unified_patch, the body of its loop (lines 179-192) for one FilePatch:
\* [status, fs, changed, named]; named holds the paths the message of the
\* exception raised names.
PatchSection(fs, fp) ==
    LET Refused(rel) ==
            [status |-> "PatchError", fs |-> fs, changed |-> <<>>, named |-> {rel}]
        Written(rel, target, original, r) ==
            IF r.status # "ok"
            THEN [status |-> r.status, fs |-> fs, changed |-> <<>>, named |-> {}]
            ELSE IF r.text # original
            THEN [status |-> "ok", fs |-> WriteFile(fs, target, r.text),
                  changed |-> <<rel>>, named |-> {}]
            ELSE [status |-> "ok", fs |-> fs, changed |-> <<>>, named |-> {}]
        Read(rel, target, original) ==
            Written(rel, target, original, ApplyHunksToText(original, fp.hunks))
        At(rel, target) ==
            IF ~Exists(fs, target) \/ ~IsFile(fs, target) THEN Refused(rel)
            ELSE Read(rel, target, ReadText(fs, target))
        Checked(rel) ==
            IF ~IsSafeThemePath(rel) THEN Refused(rel)
            ELSE At(rel, ResolveUnder(Root, rel))
    IN  Checked(NormRelPath(fp.path_new))

RECURSIVE PatchSections(_, _, _)
\* apply_unified_patch's loop over file_patches: an exception leaves the
\* files already written as they are.
PatchSections(fs, file_patches, changed) ==
    LET Next(r) ==
            IF r.status # "ok"
            THEN [status |-> r.status, fs |-> r.fs, changed |-> changed,
                  named |-> r.named]
            ELSE PatchSections(r.fs, Tail(file_patches), changed \o r.changed)
    IN  IF file_patches = <<>>
        THEN [status |-> "ok", fs |-> fs, changed |-> changed, named |-> {}]
        ELSE Next(PatchSection(fs, Head(file_patches)))

\* apply_unified_patch(patch_text, theme_root): [status, fs, changed, named]
ApplyUnifiedPatch(fs, file_patches) == PatchSections(fs, file_patches, <<>>)

---------------------------------------------------------------------------
(* plan_policy.py: validate_plan.                                            *)
(* A plan is [isdict, ops_islist, ops, reuse_analysis]; an op is             *)
(* [isdict, type, path, anchor, content, replacement, expect, patch].        *)
(* A str field that is absent, or holds a value that is no str, is None.     *)
(* expect is the JSON value of "expect_anchor_count": [t, n] with t one of   *)
(* "absent", "int", "bool", "other".  patch is [text_ok, len, files]:        *)
(* whether "patch" is a non-blank str, its length, and its parse.            *)
(* reuse_analysis is [isdict, just]: whether it is a dict, and the value of   *)
(* its "new_files_justification", [t, runs] with t one of "absent", "str",   *)
(* "other"; runs is the str run-length encoded, a sequence of [ws, n]: n     *)
(* characters that are whitespace (ws) or not.                               *)

None == <<"None">>

max_ops == 30
max_creates == 12
max_total_written_chars == 250000
min_justification_chars == 120

\* isinstance(v, str)
IsStr(v) == v # None

\* The keyword arguments of validate_plan, and their defaults (lines 95-98).
Limits(mo, mc, mt, rr) ==
    [max_ops |-> mo, max_creates |-> mc, max_total_written_chars |-> mt,
     require_reuse_analysis_for_creates |-> rr]
DefaultLimits == Limits(max_ops, max_creates, max_total_written_chars, TRUE)

RECURSIVE RunsLen(_)
\* len(s) of a run-length encoded str
RunsLen(runs) == IF runs = <<>> THEN 0 ELSE Head(runs).n + RunsLen(Tail(runs))

RECURSIVE RunsLStrip(_)
RunsLStrip(runs) ==
    IF runs # <<>> /\ (Head(runs).ws \/ Head(runs).n = 0) THEN RunsLStrip(Tail(runs))
    ELSE runs

RECURSIVE RunsRStrip(_)
RunsRStrip(runs) ==
    IF runs # <<>> /\ (runs[Len(runs)].ws \/ runs[Len(runs)].n = 0)
    THEN RunsRStrip(SubSeq(runs, 1, Len(runs) - 1))
    ELSE runs

\* A mutant of JustificationLen: the justification is measured untrimmed.
JustificationLenUntrimmed(just) == RunsLen(just.runs)

\* len(just.strip()) (line 191)
JustificationLen(just) == RunsLen(RunsRStrip(RunsLStrip(just.runs)))

\* ra.get("new_files_justification", "")
JustificationOf(ra) ==
    IF ra.just.t = "absent" THEN [t |-> "str", runs |-> <<>>] ELSE ra.just

\* op.get("expect_anchor_count", 1)
ExpectOf(op) == IF op.expect.t = "absent" THEN [t |-> "int", n |-> 1] ELSE op.expect

\* isinstance(expect, int) and expect >= 1  (a bool is an int)
ExpectIsPositiveInt(e) == e.t \in {"int", "bool"} /\ e.n >= 1

PathBearing == {"insert_after", "insert_before", "replace_once", "create_file"}

\* The body of validate_plan's loop (lines 119-177) for one op:
\* [err, creates, written, op]; err is "" or names the PlanError raised, and
\* op is the normalized op appended to normalized_ops.
ValidateOp(op) ==
    LET bad(e) == [err |-> e, creates |-> 0, written |-> 0, op |-> op]
        good(c, w, o) == [err |-> "", creates |-> c, written |-> w, op |-> o]
        anchored(text, norm) ==
            IF ~IsStr(op.anchor) \/ op.anchor = <<>> THEN bad("missing valid anchor")
            ELSE IF ~IsStr(text)
            THEN bad(IF op.type = "replace_once" THEN "missing valid replacement"
                     ELSE "missing valid content")
            ELSE IF ~ExpectIsPositiveInt(ExpectOf(op)) THEN bad("expect_anchor_count")
            ELSE good(0, Len(text), norm)
        pathed(path_norm) ==
            IF ~IsSafeThemePath(path_norm) THEN bad("path is not allowed")
            ELSE IF op.type = "create_file"
            THEN IF ~ValidateCreateExt(path_norm) THEN bad("create_file extension")
                 ELSE IF ~IsStr(op.content) THEN bad("missing valid content")
                 ELSE good(1, Len(op.content), [op EXCEPT !.path = path_norm])
            ELSE IF op.type = "replace_once"
            THEN anchored(op.replacement, [op EXCEPT !.path = path_norm])
            ELSE anchored(op.content, [op EXCEPT !.path = path_norm])
    IN  IF ~op.isdict THEN bad("must be an object")
        ELSE IF op.type \notin ALLOWED_OP_TYPES THEN bad("unsupported type")
        ELSE IF op.type \in PathBearing
        THEN IF ~IsStr(op.path) \/ Strip(op.path) = <<>> THEN bad("missing valid path")
             ELSE pathed(NormRelPath(op.path))
        ELSE IF ~op.patch.text_ok THEN bad("missing valid patch")
             ELSE good(0, op.patch.len, op)

RECURSIVE ValidateOps(_, _)
\* validate_plan's loop: acc is [err, creates, total_written, normalized_ops].
ValidateOps(ops, acc) ==
    LET Next(r) ==
            ValidateOps(Tail(ops),
                [err |-> r.err,
                 creates |-> acc.creates + r.creates,
                 total_written |-> acc.total_written + r.written,
                 normalized_ops |-> IF r.err = "" THEN Append(acc.normalized_ops, r.op)
                                    ELSE acc.normalized_ops])
    IN  IF ops = <<>> \/ acc.err # "" THEN acc
        ELSE Next(ValidateOp(Head(ops)))

\* validate_plan(plan, max_ops=.., max_creates=.., ..): [err, plan]; err is ""
\* and plan the normalized plan, or err names the PlanError raised.
ValidatePlanWith(p, lim) ==
    LET bad(e) == [err |-> e, plan |-> p]
        TooShort(just) ==
            just.t # "str" \/ JustificationLen(just) < min_justification_chars
        After(acc, ra) ==
            IF acc.err # "" THEN bad(acc.err)
            ELSE IF acc.creates > lim.max_creates THEN bad("creates too many files")
            ELSE IF acc.total_written > lim.max_total_written_chars
            THEN bad("writes too much")
            ELSE IF lim.require_reuse_analysis_for_creates /\ acc.creates > 0
                    /\ ~ra.isdict
            THEN bad("missing reuse_analysis")
            ELSE IF lim.require_reuse_analysis_for_creates /\ acc.creates > 0
                    /\ TooShort(JustificationOf(ra))
            THEN bad("justification is too short")
            ELSE [err |-> "", plan |-> [p EXCEPT !.ops = acc.normalized_ops]]
    IN  IF ~p.isdict THEN bad("Plan must be a JSON object")
        ELSE IF ~p.ops_islist \/ p.ops = <<>> THEN bad("non-empty ops list")
        ELSE IF Len(p.ops) > lim.max_ops THEN bad("too many ops")
        ELSE After(ValidateOps(p.ops, [err |-> "", creates |-> 0, total_written |-> 0,
                                       normalized_ops |-> <<>>]),
                   p.reuse_analysis)

\* validate_plan(plan), as cli.py calls it
validate_plan(p) == ValidatePlanWith(p, DefaultLimits)

\* One call of validate_plan(val_plan, **val_limits).  dict(op) and dict(plan)
\* copy (lines 165, 176, 196): the argument is left as it was.
ValidatePlanCall ==
    /\ valPc = "call"
    /\ LET Ret(r) ==
               /\ valOutcome' = r
               /\ valPc' = IF r.err = "" THEN "returned" ELSE "raised"
       IN  Ret(ValidatePlanWith(val_plan, val_limits))
    /\ UNCHANGED <<val_plan, val_limits>>
    /\ UNCHANGED <<cmdVars, tfsVars, runVars, histVars, twVars>>
    /\ UNCHANGED moreVars

---------------------------------------------------------------------------
(* patch_apply.py *)

\* _count_occurrences
CountOccurrences(text, needle) == IF needle # <<>> THEN CountFrom(text, needle, 1) ELSE 0

\* A mutant of InsertAfter: the content is placed before the anchor.
InsertAfterAtAnchorStart(text, anchor, content) ==
    LET At(idx) == Take(text, idx) \o content \o Drop(text, idx)
    IN  At(Find(text, anchor) - 1)

\* _insert_after (the anchor is present when it is called)
InsertAfter(text, anchor, content) ==
    LET At(insert_at) == Take(text, insert_at) \o content \o Drop(text, insert_at)
    IN  At(Find(text, anchor) - 1 + Len(anchor))

\* _insert_before
InsertBefore(text, anchor, content) ==
    LET At(idx) == Take(text, idx) \o content \o Drop(text, idx)
    IN  At(Find(text, anchor) - 1)

\* _replace_once
ReplaceOnce(text, anchor, replacement) == ReplaceFirst(text, anchor, replacement)

\* int(op.get("expect_anchor_count", 1)) of a validated op
ExpectInt(op) == ExpectOf(op).n

\* A mutant of AnchorCountMatches: more occurrences than declared also pass.
AnchorCountAtLeast(found, expect) == found >= expect

\* found == expect (line 100, negated)
AnchorCountMatches(found, expect) == found = expect

\* A mutant of CreateTargetFree: an existing target is written over.
CreateTargetAlwaysFree(fs, target) == TRUE

\* not target.exists() (line 83, negated)
CreateTargetFree(fs, target) == ~Exists(fs, target)

\* The body of apply_plan_ops' loop (lines 63-123) for one op of a validated
\* plan: [status, cause, fs, changed, created, named]; status is "ok",
\* "ApplyError", or the exception that escapes; changed and created are what
\* the op adds; named holds the paths the message of the ApplyError names.
ApplyOp(fs, op) ==
    LET res(s, c, f, ch, cr) ==
            [status |-> s, cause |-> c, fs |-> f, changed |-> ch, created |-> cr,
             named |-> {}]
        fail(c, rel) ==
            [status |-> "ApplyError", cause |-> c, fs |-> fs, changed |-> {},
             created |-> {}, named |-> {rel}]
        Patched(r) ==
            IF r.status = "PatchError"
            THEN [status |-> "ApplyError", cause |-> "PatchError", fs |-> r.fs,
                  changed |-> {}, created |-> {}, named |-> r.named]
            ELSE IF r.status # "ok" THEN res(r.status, r.status, r.fs, {}, {})
            ELSE res("ok", "", r.fs, {r.changed[k] : k \in DOMAIN r.changed}, {})
        Create(rel, target) ==
            IF ~CreateTargetFree(fs, target)
            THEN fail("target already exists", rel)
            ELSE IF MkdirFails(fs, target)
            THEN res("FileExistsError", "FileExistsError", fs, {}, {})
            ELSE res("ok", "", WriteFile(fs, target, op.content), {rel}, {rel})
        Written(rel, target, original, new_text) ==
            IF new_text # original
            THEN res("ok", "", WriteFile(fs, target, new_text), {rel}, {})
            ELSE res("ok", "", fs, {}, {})
        Counted(rel, target, original, found) ==
            IF ~AnchorCountMatches(found, ExpectInt(op))
            THEN fail("anchor occurrence mismatch", rel)
            ELSE IF found = 0
            THEN [status |-> "ApplyError", cause |-> "Anchor not found", fs |-> fs,
                  changed |-> {}, created |-> {}, named |-> {}]
            ELSE IF op.type = "insert_after"
            THEN Written(rel, target, original, InsertAfter(original, op.anchor, op.content))
            ELSE IF op.type = "insert_before"
            THEN Written(rel, target, original, InsertBefore(original, op.anchor, op.content))
            ELSE IF op.type = "replace_once"
            THEN Written(rel, target, original,
                         ReplaceOnce(original, op.anchor, op.replacement))
            ELSE [status |-> "ApplyError", cause |-> "unsupported op type", fs |-> fs,
                  changed |-> {}, created |-> {}, named |-> {}]
        Read(rel, target, original) ==
            Counted(rel, target, original, CountOccurrences(original, op.anchor))
        Modify(rel, target) ==
            IF ~Exists(fs, target) \/ ~IsFile(fs, target)
            THEN fail("file does not exist", rel)
            ELSE Read(rel, target, ReadText(fs, target))
        Pathed(rel, target) ==
            IF op.type = "create_file" THEN Create(rel, target) ELSE Modify(rel, target)
    IN  IF op.type = "apply_patch"
        THEN Patched(ApplyUnifiedPatch(fs, op.patch.files))
        ELSE Pathed(op.path, ResolveUnder(Root, op.path))

---------------------------------------------------------------------------
(* cli.py, "apply": the policy gate, apply_plan_ops' loop, and its return. *)

NoError == [kind |-> "", cause |-> ""]

\* A mutant of AfterPlanError: the run goes on to apply the rejected plan.
AfterPlanErrorGoOn == "apply"

\* Line 124: raise SystemExit(...) ends the run.
AfterPlanError == "exited"

\* Lines 119-126: validate_plan; a PlanError is written to apply_error.txt and
\* ends the run with exit status 1; otherwise plan.json is written.
PolicyGate ==
    /\ pc = "start"
    /\ LET Gate(r) ==
               IF r.err # ""
               THEN /\ pc' = AfterPlanError
                    /\ err' = [kind |-> "PlanError", cause |-> r.err]
                    /\ artifacts' = artifacts \cup {"apply_error.txt"}
                    /\ exit_code' = 1
                    /\ UNCHANGED plan
               ELSE /\ pc' = "apply"
                    /\ plan' = r.plan
                    /\ artifacts' = artifacts \cup {"plan.json"}
                    /\ UNCHANGED <<err, exit_code>>
       IN  Gate(validate_plan(raw_plan))
    /\ validations' = validations + 1
    /\ UNCHANGED <<raw_plan, disk, op_i, changed_files, created_files, applied_ops>>
    /\ UNCHANGED <<named_files, disk0, diskHist, tried>>
    /\ UNCHANGED <<cmdVars, tfsVars, valVars, twVars>>
    /\ UNCHANGED moreVars

\* A mutant of AfterApplyError: the loop goes on with the next op.
AfterApplyErrorGoOn == "apply"

\* Lines 131-133: an ApplyError ends the run.
AfterApplyError == "exited"

\* One iteration of apply_plan_ops' loop (patch_apply.py lines 62-123), and
\* cli.py lines 131-133 when it raises ApplyError: the error is written to
\* apply_error.txt and the run ends with exit status 1.  Any other exception
\* is not caught: the interpreter ends with a traceback and exit status 1.
ApplyOpStep ==
    /\ pc = "apply"
    /\ op_i < Len(plan.ops)
    /\ LET Step(r) ==
           /\ disk' = r.fs
           /\ diskHist' = Append(diskHist, r.fs)
           /\ tried' = Append(tried, op_i)
           /\ op_i' = op_i + 1
           /\ IF r.status = "ok"
              THEN /\ changed_files' = changed_files \cup r.changed
                   /\ created_files' = created_files \cup r.created
                   /\ applied_ops' = Append(applied_ops, op_i)
                   /\ UNCHANGED <<pc, err, artifacts, exit_code, named_files>>
              ELSE IF r.status = "ApplyError"
              THEN /\ pc' = AfterApplyError
                   /\ err' = [kind |-> "ApplyError", cause |-> r.cause]
                   /\ artifacts' = artifacts \cup {"apply_error.txt"}
                   /\ exit_code' = 1
                   /\ named_files' = r.named
                   /\ UNCHANGED <<changed_files, created_files, applied_ops>>
              ELSE /\ pc' = "crashed"
                   /\ err' = [kind |-> r.status, cause |-> r.cause]
                   /\ exit_code' = 1
                   /\ UNCHANGED <<changed_files, created_files, applied_ops, artifacts,
                                   named_files>>
       IN  Step(ApplyOp(disk, plan.ops[op_i + 1]))
    /\ UNCHANGED <<raw_plan, plan, disk0, validations>>
    /\ UNCHANGED <<cmdVars, tfsVars, valVars, twVars>>
    /\ UNCHANGED moreVars

\* apply_plan_ops returns (patch_apply.py lines 125-129) and cli.py lines
\* 135-143 write apply_meta.json with the changed files.
ApplyReturn ==
    /\ pc = "apply"
    /\ op_i = Len(plan.ops)
    /\ pc' = "applied"
    /\ artifacts' = artifacts \cup {"apply_meta.json"}
    /\ named_files' = changed_files
    /\ UNCHANGED <<raw_plan, plan, disk, op_i, changed_files, created_files, applied_ops,
                   err, exit_code>>
    /\ UNCHANGED <<histVars, cmdVars, tfsVars, valVars, twVars>>
    /\ UNCHANGED moreVars

RunNext == PolicyGate \/ ApplyOpStep \/ ApplyReturn

---------------------------------------------------------------------------
(* The inputs of the runs. *)

Absent == [t |-> "absent", n |-> 0]
IntValue(n) == [t |-> "int", n |-> n]
NoPatch == [text_ok |-> FALSE, len |-> 0, files |-> <<>>]

\* {"type": t, "path": p, "anchor": a, "content": c, "expect_anchor_count": e}
AnchorOp(t, p, a, c, e) ==
    [isdict |-> TRUE, type |-> t, path |-> p, anchor |-> a,
     content |-> IF t = "replace_once" THEN None ELSE c,
     replacement |-> IF t = "replace_once" THEN c ELSE None,
     expect |-> e, patch |-> NoPatch]

\* {"type": "create_file", "path": p, "content": c}
CreateOp(p, c) ==
    [isdict |-> TRUE, type |-> "create_file", path |-> p, anchor |-> None,
     content |-> c, replacement |-> None, expect |-> Absent, patch |-> NoPatch]

\* One line of a hunk's body, with its tag first.
HunkLine(tag, content) == <<tag>> \o content

\* The Hunk parsed from "@@ -old_start,old_len +old_start,new_len @@" and body.
HunkOf(old_start, body) ==
    [old_start |-> old_start,
     old_len |-> Cardinality({k \in DOMAIN body : body[k][1] # "+"}),
     new_start |-> old_start,
     new_len |-> Cardinality({k \in DOMAIN body : body[k][1] # "-"}),
     lines |-> body]

\* The FilePatch parsed from "diff --git a/<p> b/<p>" and its hunks.
FilePatchOf(p, hunks) == [path_old |-> p, path_new |-> p, hunks |-> hunks]

\* The FilePatch parsed from "diff --git a/<po> b/<pn>" and its hunks.
RenamingPatchOf(po, pn, hunks) == [path_old |-> po, path_new |-> pn, hunks |-> hunks]

\* {"type": "apply_patch", "patch": <the text that parses to files>}
PatchOp(files) ==
    [isdict |-> TRUE, type |-> "apply_patch", path |-> None, anchor |-> None,
     content |-> None, replacement |-> None, expect |-> Absent,
     patch |-> [text_ok |-> TRUE, len |-> 40, files |-> files]]

NoJustification == [t |-> "absent", runs |-> <<>>]
\* A str of lead blanks, n other characters, and trail blanks.
Justification(lead, n, trail) ==
    [t |-> "str", runs |-> <<[ws |-> TRUE, n |-> lead], [ws |-> FALSE, n |-> n],
                            [ws |-> TRUE, n |-> trail]>>]

\* No "reuse_analysis", and {"reuse_analysis": {"new_files_justification": <n characters>}}
NoReuseAnalysis == [isdict |-> FALSE, just |-> NoJustification]
ReuseAnalysis(n) == [isdict |-> TRUE, just |-> Justification(0, n, 0)]

PlanOf(ops, ra) ==
    [isdict |-> TRUE, ops_islist |-> TRUE, ops |-> ops, reuse_analysis |-> ra]

\* sections/a.liquid, sections/b.liquid, and sections/./b.liquid
PathA == <<"sections", "/", "a", ".", "liquid">>
PathB == <<"sections", "/", "b", ".", "liquid">>
PathBAlias == <<"sections", "/", ".", "/", "b", ".", "liquid">>

SectionsDir == Root \o << <<"sections">> >>
FileA == SectionsDir \o << <<"a", ".", "liquid">> >>
FileB == SectionsDir \o << <<"b", ".", "liquid">> >>

\* A theme workspace that holds sections/a.liquid with the given bytes.
ThemeWith(bytesA) ==
    [q \in {SubSeq(FileA, 1, n) : n \in 1..Len(FileA)} |->
        IF q = FileA THEN FileNode(bytesA) ELSE DirNode]

---------------------------------------------------------------------------
(* Specifications. *)

NoPlan == PlanOf(<<>>, NoReuseAnalysis)

CmdIdle ==
    /\ cmd = <<>>
    /\ allowed_prefixes = {}
    /\ cmdPc = "idle"
    /\ cmdOutcome = ""
    /\ procs = <<>>

TfsIdle ==
    /\ rel_path = <<>>
    /\ tfsPc = "idle"
    /\ tfsOutcome = [status |-> "", p |-> NoPath]

ValIdle ==
    /\ val_plan = NoPlan
    /\ val_limits = DefaultLimits
    /\ valPc = "idle"
    /\ valOutcome = [err |-> "", plan |-> NoPlan]

TwIdle ==
    /\ tw_rel_path = <<>>
    /\ tw_content = <<>>
    /\ tw_fs = ThemeWith(<<>>)
    /\ twPc = "idle"
    /\ twOutcome = ""
    /\ tw_read = [status |-> "", text |-> <<>>]
    /\ tw_fs0 = ThemeWith(<<>>)

\* The artifact root, as ArtifactFS.__post_init__ leaves it when it was absent.
EmptyRunDir ==
    [q \in {SubSeq(ArtifactRoot, 1, n) : n \in 1..Len(ArtifactRoot)} |-> DirNode]

AfIdle ==
    /\ af_op = "write_text"
    /\ af_rel_path = <<>>
    /\ af_data = [ok |-> TRUE, bytes |-> <<>>]
    /\ af_fs = EmptyRunDir
    /\ afPc = "idle"
    /\ afOutcome = [status |-> "", p |-> NoPath]
    /\ af_fs0 = EmptyRunDir

GateIdle ==
    /\ signal = NoFile
    /\ gatePc = "idle"
    /\ gate_notes = <<>>
    /\ gate_raw = <<>>
    /\ human_words = {}
    /\ human_count = 0

LoopIdle ==
    /\ lp_max_iters = 0
    /\ lp_max_trips = 0
    /\ llm_answers = {}
    /\ messages = <<>>
    /\ lp_i = 0
    /\ lp_trips = 0
    /\ pending = <<>>
    /\ decision = NoDecision
    /\ loopPc = "idle"
    /\ loopOutcome = ""
    /\ lp_files = {}
    /\ lp_log = <<>>
    /\ lp_procs = NoProcs

SharedIdle ==
    /\ mcp_threads = [c \in Callers |-> IdleThread]
    /\ mcp_inbox = <<>>
    /\ mcp_pipe = <<>>
    /\ mcp_trace = <<>>

McpIdle ==
    /\ mcp_cmd = ""
    /\ mcpPc = "idle"
    /\ mcp_id = 0
    /\ mcp_wire = <<>>
    /\ mcp_calls = 0
    /\ mcp_last = ""
    /\ SharedIdle

MoreIdle == AfIdle /\ GateIdle /\ LoopIdle /\ McpIdle

\* The run of "apply" is about to start on plan document p and workspace d.
RunStart(p, d) ==
    /\ raw_plan = p
    /\ plan = NoPlan
    /\ disk = d
    /\ pc = "start"
    /\ op_i = 0
    /\ changed_files = {}
    /\ created_files = {}
    /\ applied_ops = <<>>
    /\ err = NoError
    /\ artifacts = {}
    /\ exit_code = -1
    /\ named_files = {}
    /\ disk0 = d
    /\ diskHist = <<>>
    /\ tried = <<>>
    /\ validations = 0

RunIdle ==
    /\ raw_plan = NoPlan
    /\ plan = NoPlan
    /\ disk = ThemeWith(<<>>)
    /\ pc = "idle"
    /\ op_i = 0
    /\ changed_files = {}
    /\ created_files = {}
    /\ applied_ops = <<>>
    /\ err = NoError
    /\ artifacts = {}
    /\ exit_code = -1
    /\ named_files = {}
    /\ disk0 = ThemeWith(<<>>)
    /\ diskHist = <<>>
    /\ tried = <<>>
    /\ validations = 0

CoreIdle == CmdIdle /\ TfsIdle /\ RunIdle /\ ValIdle /\ TwIdle

\* The allow-lists: at most MaxPrefixes prefixes of at most MaxArgv elements.
RECURSIVE SetsUpTo(_, _)
SetsUpTo(S, n) ==
    IF n = 0 THEN {{}}
    ELSE LET Grow(smaller) == smaller \cup {ps \cup {x} : ps \in smaller, x \in S}
         IN  Grow(SetsUpTo(S, n - 1))

AllowLists == SetsUpTo(SeqsUpTo(CmdTokens, MaxArgv), MaxPrefixes)

CmdInit ==
    /\ cmd \in SeqsUpTo(CmdTokens, MaxArgv)
    /\ allowed_prefixes \in AllowLists
    /\ cmdPc = "call"
    /\ cmdOutcome = ""
    /\ procs = <<>>
    /\ TfsIdle
    /\ RunIdle
    /\ ValIdle
    /\ TwIdle
    /\ MoreIdle

CmdNext == RunAllowedCheck \/ RunAllowedSpawn

\* The command sandbox: one call of run_allowed on any vector and allow-list.
SpecCmd == CmdInit /\ [][CmdNext]_vars

TfsInit ==
    /\ rel_path \in SeqsUpTo(PathAtoms, MaxPathLen)
    /\ tfsPc = "call"
    /\ tfsOutcome = [status |-> "", p |-> NoPath]
    /\ CmdIdle
    /\ RunIdle
    /\ ValIdle
    /\ TwIdle
    /\ MoreIdle

TfsNext == ResolveRelCall

\* The scoped filesystem's path resolution, on any path string.
SpecThemeFS == TfsInit /\ [][TfsNext]_vars

\* ---- plans of several ops, on a workspace that holds sections/a.liquid = "ab\n"

PatchAbToB ==
    PatchOp(<<FilePatchOf(PathA, <<HunkOf(1, <<HunkLine("-", <<"a", "b">>),
                                              HunkLine("+", <<"b">>)>>)>>)>>)

SmallOps ==
    { CreateOp(PathB, <<"a">>),
      CreateOp(PathA, <<"b">>),
      CreateOp(PathBAlias, <<"b">>),
      AnchorOp("insert_after", PathA, <<"a">>, <<"b">>, IntValue(1)),
      AnchorOp("insert_before", PathB, <<"a">>, <<"b">>, Absent),
      AnchorOp("replace_once", PathA, <<"b">>, <<"a">>, Absent),
      AnchorOp("insert_after", PathA, <<"a">>, <<"a">>, IntValue(2)),
      PatchAbToB,
      AnchorOp("insert_after", <<".", ".", "/", "x">>, <<"a">>, <<"b">>, Absent) }

ApplyInit ==
    /\ \E ops \in SeqsUpTo(SmallOps, MaxOps) \ {<<>>} :
       \E ra \in {NoReuseAnalysis, ReuseAnalysis(min_justification_chars)} :
          RunStart(PlanOf(ops, ra), ThemeWith(<<"a", "b", "LF">>))
    /\ CmdIdle
    /\ TfsIdle
    /\ ValIdle
    /\ TwIdle
    /\ MoreIdle

\* "apply" on plans of up to MaxOps ops.
SpecApply == ApplyInit /\ [][RunNext]_vars

\* ---- validate_plan on plans of several ops, under several limits

BoolValue == [t |-> "bool", n |-> 1]
OtherValue == [t |-> "other", n |-> 0]

\* "\sections///a.liquid"
PathAUnnormalized == <<"\\", "sections", "/", "/", "/", "a", ".", "liquid">>

ValOps ==
    { CreateOp(PathB, <<"a">>),
      CreateOp(<<"sections", "/", "b", ".", "json">>, <<"a">>),
      CreateOp(<<"assets", "/", "b", ".", "png">>, <<"a", "b">>),
      AnchorOp("replace_once", PathA, <<"a">>, <<"a", "b", "a">>, IntValue(2)),
      AnchorOp("insert_before", PathAUnnormalized, <<"a">>, <<"b">>, IntValue(1)),
      [PatchAbToB EXCEPT !.patch.len = 2] }
    \cup { AnchorOp("insert_after", PathA, <<"a">>, <<"b">>, e) :
              e \in {Absent, IntValue(1), IntValue(0), IntValue(-1), BoolValue, OtherValue} }

ValReuseAnalyses ==
    { NoReuseAnalysis,
      [isdict |-> TRUE, just |-> NoJustification],
      [isdict |-> TRUE, just |-> [t |-> "other", runs |-> <<>>]],
      ReuseAnalysis(min_justification_chars - 1),
      ReuseAnalysis(min_justification_chars),
      [isdict |-> TRUE, just |-> Justification(1, min_justification_chars - 1, 1)],
      [isdict |-> TRUE, just |-> Justification(2, min_justification_chars, 0)] }

ValLimits ==
    { Limits(2, max_creates, max_total_written_chars, TRUE),
      Limits(max_ops, 1, max_total_written_chars, TRUE),
      Limits(max_ops, max_creates, 3, TRUE),
      Limits(max_ops, max_creates, max_total_written_chars, FALSE) }

ValInit ==
    /\ val_plan \in {PlanOf(ops, ra) : ops \in SeqsUpTo(ValOps, MaxOps),
                                       ra \in ValReuseAnalyses}
                    \cup {[PlanOf(<<>>, NoReuseAnalysis) EXCEPT !.isdict = FALSE],
                          [PlanOf(<<>>, NoReuseAnalysis) EXCEPT !.ops_islist = FALSE]}
    /\ val_limits \in
          IF val_plan.reuse_analysis = ReuseAnalysis(min_justification_chars)
             \/ val_plan.reuse_analysis = NoReuseAnalysis
          THEN {DefaultLimits} \cup ValLimits ELSE {DefaultLimits}
    /\ valPc = "call"
    /\ valOutcome = [err |-> "", plan |-> NoPlan]
    /\ CmdIdle
    /\ TfsIdle
    /\ RunIdle
    /\ TwIdle
    /\ MoreIdle

ValNext == ValidatePlanCall

\* validate_plan, called once on any of these plans under any of these limits.
SpecValidate == ValInit /\ [][ValNext]_vars

\* ---- ThemeFS.write_text then ThemeFS.read_text, on two small workspaces

\* The atoms of the paths written: separators, two directory or file names,
\* and an extension in lower and in upper case.
TwPathAtoms == {"/", ".", "assets", "x", "png", "PNG"}

\* Paths beyond MaxPathLen atoms, and paths with atoms of their own.
TwExtraPaths ==
    { <<"sections", "/", "x">>,
      <<"sections", "/", "x", "/", "x">>,
      <<"sections", "/", ".", ".">>,
      <<"sections", "/", "x", ".", "css">>,
      <<"assets", "/", "x", ".", "css">>,
      <<" ", "/", "assets", "/", "x", ".", "png", " ">>,
      <<"assets", "/", "x", ".", "png", "/", "x", "/", ".", ".">> }

TwPaths == SeqsUpTo(TwPathAtoms, MaxPathLen) \cup TwExtraPaths

TwFewPaths ==
    { <<"sections", "/", "x">>, <<"assets", "/", "x">>, <<"x", "/", "x">>,
      <<"assets", "/", "x", ".", "PNG">>,
      <<"config", "/", "settings_data", ".", "json">> }

TwChars == TextChars \cup {"data:image/", "xs"}

TwContents == SeqsUpTo(TwChars, MaxTextLen)

TwFewContents == { <<"b", "CR">> }

\* Two workspaces: one holds the file sections/x and no assets directory,
\* the other holds the file assets/x as well.
TwThemeS ==
    [q \in {Root, SubSeq(Root, 1, 1), Root \o << <<"sections">> >>,
            Root \o << <<"sections">>, <<"x">> >>} |->
        IF q = Root \o << <<"sections">>, <<"x">> >> THEN FileNode(<<"a", "LF">>)
        ELSE DirNode]

TwThemeSA == WriteFile(TwThemeS, Root \o << <<"assets">>, <<"x">> >>, <<"a">>)

TwInit ==
    /\ \/ tw_rel_path \in TwPaths /\ tw_content \in TwFewContents
       \/ tw_rel_path \in TwFewPaths /\ tw_content \in TwContents
    /\ tw_fs \in {TwThemeS, TwThemeSA}
    /\ tw_fs0 = tw_fs
    /\ twPc = "call"
    /\ twOutcome = ""
    /\ tw_read = [status |-> "", text |-> <<>>]
    /\ CmdIdle
    /\ TfsIdle
    /\ RunIdle
    /\ ValIdle
    /\ MoreIdle

TwNext == WriteTextCall \/ ReadTextCall

SpecThemeWrite == TwInit /\ [][TwNext]_vars

\* ---- ArtifactFS.write_text and write_base64, on two small run directories

AfPathAtoms == {"/", ".", "\\", " ", "x"}

\* Paths beyond MaxPathLen atoms.
AfExtraPaths ==
    { <<"x", "/", "x", "/", ".", ".">>,
      <<"x", "/", ".", ".", "/", ".", ".">> }

\* The run directory holding the file x.
RunDirX == WriteFile(EmptyRunDir, ArtifactRoot \o << <<"x">> >>, <<"a">>)

AfInit ==
    /\ af_op \in {"write_text", "write_base64"}
    /\ af_rel_path \in SeqsUpTo(AfPathAtoms, MaxPathLen) \cup AfExtraPaths
    /\ af_data \in {[ok |-> TRUE, bytes |-> <<"b">>]}
                   \cup (IF af_op = "write_base64"
                         THEN {[ok |-> FALSE, bytes |-> <<>>]} ELSE {})
    /\ af_fs \in {EmptyRunDir, RunDirX}
    /\ af_fs0 = af_fs
    /\ afPc = "call"
    /\ afOutcome = [status |-> "", p |-> NoPath]
    /\ CoreIdle
    /\ GateIdle
    /\ LoopIdle
    /\ McpIdle

AfNext == ArtifactWriteCall

SpecArtifact == AfInit /\ [][AfNext]_vars

\* ---- wait_for_continue, with a human who writes texts of a few words

GateWords ==
    { Keyword, KEYWORD, <<"C", "o", "n", "t", "i", "n", "u", "e">>,
      <<"c", "o", "n">>, <<"t", "i", "n", "u", "e">>, <<" ">> }

\* "please continue, ship it"
PleaseContinue ==
    <<"p", "l", "e", "a", "s", "e", " ">> \o Keyword
        \o <<",", " ", "s", "h", "i", "p", " ", "i", "t">>

\* What the signal file may hold when the wait starts; the human adds no word
\* to these.
GateTexts == { PleaseContinue, Keyword \o <<"CR", "LF">>, <<"a">> }

GateInit ==
    /\ human_words = GateWords
    /\ \/ signal = NoFile /\ human_count = 0
       \/ signal \in {FileOf(t) : t \in GateTexts} /\ human_count = MaxWords
    /\ gatePc = "polling"
    /\ gate_notes = <<>>
    /\ gate_raw = <<>>
    /\ CoreIdle
    /\ AfIdle
    /\ LoopIdle
    /\ McpIdle

GateNext == GatePoll \/ HumanWrite

SpecGate == GateInit /\ [][GateNext]_vars

\* wait_for_continue runs on: a poll that would return is not put off for ever.
SpecGateFair == SpecGate /\ WF_vars(GatePoll)

\* ---- run_agent_loop, with a model that answers from a few responses

Object(status) == ContentOf("object", status, status = "needs_human", 2)

LoopContents ==
    { Object("done"), Object("error"), Object("needs_human"), Object("continue"),
      Object("bogus"), ContentOf("array", "absent", FALSE, 2),
      ContentOf("invalid", "absent", FALSE, edits_max_chars + 1) }

LoopToolRounds ==
    { << CallOf("c1", "nope", "returns"),
         CallOf("c2", "theme_write_file", "ThemeScopeError"),
         CallOf("c3", "theme.search", "TimeoutExpired") >>,
      << CallOf("c1", "mcp_figma_call", "MCPError"),
         CallOf("c2", "human_pause_for_admin_updates", "returns"),
         CallOf("c1", "", "returns"),
         CallOf("c3", "theme_read_file", "returns") >> }

LoopAnswers ==
    { ResponseOf(FALSE, <<>>, c) : c \in LoopContents }
        \cup { ResponseOf(FALSE, calls, NoContent) : calls \in LoopToolRounds }
        \cup { ResponseOf(TRUE, <<>>, NoContent) }

LoopInit ==
    /\ lp_max_iters = MaxIters
    /\ lp_max_trips = MaxRoundTrips
    /\ llm_answers = LoopAnswers
    /\ messages = <<SystemMessage>>
    /\ lp_i = 0
    /\ lp_trips = 0
    /\ pending = <<>>
    /\ decision = NoDecision
    /\ loopPc = "iter"
    /\ loopOutcome = ""
    /\ lp_files = {}
    /\ lp_log = <<>>
    /\ lp_procs = NoProcs
    /\ signal = NoFile
    /\ gatePc = "idle"
    /\ gate_notes = <<>>
    /\ gate_raw = <<>>
    /\ human_words = {Keyword}
    /\ human_count = 0
    /\ CoreIdle
    /\ AfIdle
    /\ McpIdle

LoopNext ==
    \/ LoopHead
    \/ ChatRound
    \/ ToolCallStep
    \/ ToolResume
    \/ Decide
    \/ LoopResume
    \/ GatePoll
    \/ HumanWrite

SpecLoop == LoopInit /\ [][LoopNext]_vars

\* A whole run of run_agent_loop, from the start of the subprocesses on.  The
\* budgets are the pairs under which a run needs no more than MaxRequests
\* requests, so that the bound on the history never stops a run.
AgentBudgets ==
    { b \in (1..MaxIters) \X (1..MaxRoundTrips) : b[1] * b[2] <= MaxRequests }

AgentAnswers ==
    { ResponseOf(FALSE, <<>>, c) :
          c \in {Object("done"), Object("needs_human"), Object("continue")} }
        \cup { ResponseOf(FALSE, calls, NoContent) : calls \in LoopToolRounds }
        \cup { ResponseOf(TRUE, <<>>, NoContent) }

AgentInit ==
    /\ \E b \in AgentBudgets :
          /\ lp_max_iters = b[1]
          /\ lp_max_trips = b[2]
    /\ llm_answers = AgentAnswers
    /\ messages = <<SystemMessage>>
    /\ lp_i = 0
    /\ lp_trips = 0
    /\ pending = <<>>
    /\ decision = NoDecision
    /\ loopPc = "setup"
    /\ loopOutcome = ""
    /\ lp_files = {}
    /\ lp_log = <<>>
    /\ \E cfg \in SUBSET Subprocesses : lp_procs = [NoProcs EXCEPT !.cfg = cfg]
    /\ signal = NoFile
    /\ gatePc = "idle"
    /\ gate_notes = <<>>
    /\ gate_raw = <<>>
    /\ human_words = {Keyword}
    /\ human_count = 0
    /\ CoreIdle
    /\ AfIdle
    /\ McpIdle

AgentNext ==
    \/ LoopSetup
    \/ LoopHead
    \/ ChatRound
    \/ ToolCallStep
    \/ ToolResume
    \/ Decide
    \/ LoopResume
    \/ GatePoll
    \/ HumanWrite

SpecAgent == AgentInit /\ [][AgentNext]_vars

\* The run's own steps are taken when they can be: the interpreter runs the
\* loop on, and a request, a tool call or a poll that returns lets it.
SpecAgentFair ==
    /\ SpecAgent
    /\ WF_vars(LoopSetup)
    /\ WF_vars(LoopHead)
    /\ WF_vars(ChatRound)
    /\ WF_vars(ToolCallStep)
    /\ WF_vars(ToolResume)
    /\ WF_vars(Decide)
    /\ WF_vars(LoopResume)
    /\ WF_vars(GatePoll)

\* ---- one MCPClient session, from from_cmd on

McpInit ==
    /\ mcp_cmd \in {"", "figma-mcp"}
    /\ mcpPc = "idle"
    /\ mcp_id = 0
    /\ mcp_wire = <<>>
    /\ mcp_calls = 0
    /\ mcp_last = ""
    /\ SharedIdle
    /\ CoreIdle
    /\ AfIdle
    /\ GateIdle
    /\ LoopIdle

McpNext ==
    \/ from_cmd
    \/ list_tools
    \/ mcp_call_tool
    \/ close

SpecMcp == McpInit /\ [][McpNext]_vars

\* A client that from_cmd has returned, its handshake done with id 1, in the
\* hands of several callers.
SharedInit ==
    /\ mcp_cmd = "figma-mcp"
    /\ mcpPc = "ready"
    /\ mcp_id = 1
    /\ mcp_wire = notify(request(0, <<>>, "initialize", TRUE, "result").wire,
                         "notifications/initialized", TRUE).wire
    /\ mcp_calls = 0
    /\ mcp_last = "returned"
    /\ mcp_threads = [c \in Callers |-> IdleThread]
    /\ mcp_inbox = <<>>
    /\ mcp_pipe = <<>>
    /\ mcp_trace = <<TraceOf(0, "take", 1, 0)>>
    /\ CoreIdle
    /\ AfIdle
    /\ GateIdle
    /\ LoopIdle

SharedNext ==
    \/ \E c \in Callers : TakeId(c)
    \/ \E c \in Callers : WriteRequest(c)
    \/ \E c \in Callers : ReadResponse(c)
    \/ PeerReply

SpecShared == SharedInit /\ [][SharedNext]_vars

\* ---- plans of one op whose path is any string

PlanPathAtoms == {"/", ".", "\\", "sections", "x", "liquid"}

PlanPathInit ==
    /\ \E p \in SeqsUpTo(PlanPathAtoms, MaxPlanPathLen) :
       \E op \in { AnchorOp("insert_after", p, <<"a">>, <<"b">>, Absent),
                   CreateOp(p, <<"a">>) } :
          RunStart(PlanOf(<<op>>, ReuseAnalysis(min_justification_chars)),
                   ThemeWith(<<"a", "b", "LF">>))
    /\ CmdIdle
    /\ TfsIdle
    /\ ValIdle
    /\ TwIdle
    /\ MoreIdle

\* "apply" on one-op plans naming any path of up to MaxPlanPathLen atoms.
SpecPlanPath == PlanPathInit /\ [][RunNext]_vars

\* ---- plans of one anchor op, on sections/a.liquid holding any bytes

AnchorTypes == {"insert_after", "insert_before", "replace_once"}
Anchors == { <<"a">>, <<"a", "a">>, <<"a", "LF">> }
Contents == { <<>>, <<"b">>, <<"a">>, <<"CR">> }
Expects == { Absent, IntValue(1), IntValue(2) }

AnchorInit ==
    /\ \E t \in AnchorTypes, a \in Anchors, c \in Contents, e \in Expects :
       \E bytes \in SeqsUpTo(TextChars, MaxTextLen) :
          RunStart(PlanOf(<<AnchorOp(t, PathA, a, c, e)>>, NoReuseAnalysis),
                   ThemeWith(bytes))
    /\ CmdIdle
    /\ TfsIdle
    /\ ValIdle
    /\ TwIdle
    /\ MoreIdle

\* "apply" on one-op plans of an anchor op.
SpecAnchor == AnchorInit /\ [][RunNext]_vars

\* ---- plans of one apply_patch op of several file sections

\* A workspace holding sections/a.liquid = "a\nb\n" and sections/b.liquid = "a\n".
ThemeAB ==
    WriteFile(ThemeWith(<<"a", "LF", "b", "LF">>), FileB, <<"a", "LF">>)

SmallBodies ==
    { <<HunkLine("-", <<"a">>), HunkLine("+", <<"b">>)>>,
      <<HunkLine(" ", <<"a">>)>>,
      <<HunkLine("-", <<"b">>)>>,
      <<HunkLine("+", <<"a">>)>> }

SmallHunkLists ==
    {<<>>} \cup {<<HunkOf(st, body)>> : st \in {1, 2}, body \in SmallBodies}

\* x/a, a path outside the theme's directories, and the file it names.
PathOutside == <<"x", "/", "a">>
FileOutside == Root \o << <<"x">>, <<"a">> >>

\* ThemeAB, and x/a = "a\n" beside the theme's directories.
ThemeABX == WriteFile(ThemeAB, FileOutside, <<"a", "LF">>)

\* Sections whose old and new paths differ, one of the two being x/a.
RenamingSections ==
    { RenamingPatchOf(PathOutside, PathA,
                      <<HunkOf(1, <<HunkLine("-", <<"a">>), HunkLine("+", <<"b">>)>>)>>),
      RenamingPatchOf(PathA, PathOutside,
                      <<HunkOf(1, <<HunkLine("-", <<"a">>), HunkLine("+", <<"b">>)>>)>>) }

SmallSections ==
    {FilePatchOf(p, hs) :
        p \in {PathA, PathB, <<"sections", "/", "x">>, PathOutside},
        hs \in SmallHunkLists}
    \cup RenamingSections
    \cup { FilePatchOf(<<"sections", "/", ".", ".">>,
                       <<HunkOf(1, <<HunkLine("+", <<"a">>)>>)>>) }

PatchInit ==
    /\ \E files \in SeqsUpTo(SmallSections, MaxSections) :
          RunStart(PlanOf(<<PatchOp(files)>>, NoReuseAnalysis), ThemeABX)
    /\ CmdIdle
    /\ TfsIdle
    /\ ValIdle
    /\ TwIdle
    /\ MoreIdle

\* "apply" on one apply_patch op of up to MaxSections file sections.
SpecPatch == PatchInit /\ [][RunNext]_vars

\* ---- plans of one apply_patch op of one file section with any hunks

HunkTextChars == {"a", "b", "LF"}
HunkLineKinds == {HunkLine(tag, <<c>>) : tag \in {" ", "+", "-"}, c \in {"a", "b"}}
HunkStarts == 0..(MaxTextLen + 1)
OneLineHunks == {HunkOf(st, <<l>>) : st \in 1..3, l \in HunkLineKinds}

HunkLists ==
    {<<HunkOf(st, body)>> :
        st \in HunkStarts, body \in SeqsUpTo(HunkLineKinds, MaxHunkLines)}
    \cup {<<h1, h2>> : h1 \in OneLineHunks, h2 \in OneLineHunks}

HunksInit ==
    /\ \E hs \in HunkLists :
       \E bytes \in SeqsUpTo(HunkTextChars, MaxTextLen) :
          RunStart(PlanOf(<<PatchOp(<<FilePatchOf(PathA, hs)>>)>>, NoReuseAnalysis),
                   ThemeWith(bytes))
    /\ CmdIdle
    /\ TfsIdle
    /\ ValIdle
    /\ TwIdle
    /\ MoreIdle

\* "apply" on one apply_patch op of one file section.
SpecHunks == HunksInit /\ [][RunNext]_vars

\* ---- plans of one apply_patch op of one hunk, on texts with a form feed,
\* ---- the hunk's lines being a context line, a removed line, an added line
\* ---- or an added empty line

NewlineTextChars == {"a", "LF", "FF"}
NewlineHunkLines ==
    { HunkLine(" ", <<"a">>), HunkLine("-", <<"a">>), HunkLine("+", <<"a">>),
      HunkLine("+", <<>>) }

NewlineHunkLists ==
    {<<>>} \cup {<<HunkOf(st, body)>> :
                    st \in 1..2, body \in SeqsUpTo(NewlineHunkLines, MaxHunkLines)}

NewlineInit ==
    /\ \E hs \in NewlineHunkLists :
       \E bytes \in SeqsUpTo(NewlineTextChars, MaxTextLen) :
          RunStart(PlanOf(<<PatchOp(<<FilePatchOf(PathA, hs)>>)>>, NoReuseAnalysis),
                   ThemeWith(bytes))
    /\ CmdIdle
    /\ TfsIdle
    /\ ValIdle
    /\ TwIdle
    /\ MoreIdle

SpecNewline == NewlineInit /\ [][RunNext]_vars

---------------------------------------------------------------------------
(* C1 *)

\* p is a prefix of c, element for element.
IsPrefixOf(p, c) == Len(p) <= Len(c) /\ \A i \in 1..Len(p) : c[i] = p[i]

\* C1: run_allowed creates a process only for an argument vector that some
\* allowed prefix matches element for element, and only after the check; any
\* other vector raises CommandNotAllowed and creates no process.  [rg,
\* --version] passes against {[rg, --version]} and fails against
\* {[git, --version]}.
C1_ProcessOnlyIfAllowListed ==
    LET matched == \E p \in allowed_prefixes : IsPrefixOf(p, cmd)
    IN  /\ procs # <<>> => matched /\ procs = <<cmd>> /\ cmdPc = "returned"
        /\ cmdPc \in {"checked", "returned"} => matched
        /\ cmdPc = "raised" => ~matched /\ cmdOutcome = "CommandNotAllowed" /\ procs = <<>>
        /\ cmdPc \notin {"idle", "call"} /\ ~matched => cmdPc = "raised"
        /\ (cmd = <<"rg", "--version">> /\ cmdPc \notin {"idle", "call"}) =>
              /\ allowed_prefixes = {<<"rg", "--version">>} => cmdPc # "raised"
              /\ allowed_prefixes = {<<"git", "--version">>} => cmdPc = "raised"

\* C1's case: [rg, --version] ran under the allow-list {[rg, --version]}.
C1_Witness ==
    /\ cmd = <<"rg", "--version">>
    /\ allowed_prefixes = {<<"rg", "--version">>}
    /\ cmdPc = "returned"
    /\ procs = <<cmd>>

---------------------------------------------------------------------------
(* C2 *)

\* Some "/"-separated field of the path is "..".
HasParentSegment(path) ==
    \E k \in DOMAIN SplitOn(path, "/") : SplitOn(path, "/")[k] = <<".", ".">>

\* p lies inside the workspace root, at or below an allowed top-level directory.
UnderAllowedTopDir(p) ==
    /\ Len(p) > Len(Root)
    /\ SubSeq(p, 1, Len(Root)) = Root
    /\ p[Len(Root) + 1] \in ALLOWED_TOP_DIRS

\* C2: every path _resolve_rel accepts holds no ".." segment, leading, inner or
\* trailing, and resolves inside the root under an allowed top-level directory.
C2_AcceptedPathHasNoParentSegment ==
    (tfsPc = "returned" /\ tfsOutcome.status = "returned") =>
        /\ ~HasParentSegment(rel_path)
        /\ UnderAllowedTopDir(tfsOutcome.p)

---------------------------------------------------------------------------
(* C3 *)

\* p lies inside the workspace root, at or below a directory the plan policy
\* allows.
UnderAllowedPlanDir(p) ==
    /\ Len(p) > Len(Root)
    /\ SubSeq(p, 1, Len(Root)) = Root
    /\ p[Len(Root) + 1] \in ALLOWED_TOP_LEVEL_DIRS

\* validate_plan returned the normalized plan.
PlanAccepted == "plan.json" \in artifacts

\* C3: every path of a path-bearing op of a plan validate_plan returns holds
\* no ".." segment and resolves inside the root under an allowed top-level
\* directory; a path with a leading, inner or trailing ".." segment is
\* rejected with PlanError.
C3_AcceptedOpPathStaysInScope ==
    /\ PlanAccepted =>
          \A k \in DOMAIN plan.ops :
             plan.ops[k].type \in PathBearing =>
                /\ ~HasParentSegment(plan.ops[k].path)
                /\ UnderAllowedPlanDir(ResolveUnder(Root, plan.ops[k].path))
    /\ (pc \notin {"idle", "start"}
        /\ \E k \in DOMAIN raw_plan.ops :
              HasParentSegment(NormRelPath(raw_plan.ops[k].path)))
       => err.kind = "PlanError"

---------------------------------------------------------------------------
(* C4 *)

\* C4: the workspace differs from what it was only after validate_plan has
\* returned the whole plan; a PlanError leaves the workspace as it was, is
\* written to apply_error.txt, ends the run with a non-zero exit status, and
\* the plan is validated once.
C4_NoMutationBeforeValidation ==
    /\ validations <= 1
    /\ (disk # disk0 \/ tried # <<>>) =>
          PlanAccepted /\ validations = 1 /\ err.kind # "PlanError"
    /\ err.kind = "PlanError" =>
          /\ disk = disk0
          /\ tried = <<>>
          /\ "apply_error.txt" \in artifacts
          /\ "plan.json" \notin artifacts
          /\ exit_code > 0
          /\ pc = "exited"
          /\ validations = 1

\* C4's case: a plan whose first op would create a file and whose later op
\* names a path outside the theme is rejected, and nothing was written.
C4_Witness ==
    /\ Len(raw_plan.ops) >= 2
    /\ raw_plan.ops[1] = CreateOp(PathB, <<"a">>)
    /\ err.kind = "PlanError"
    /\ pc = "exited"
    /\ disk = disk0
    /\ "apply_error.txt" \in artifacts

---------------------------------------------------------------------------
(* C5 *)

\* C5: when a unified patch fails with PatchError in any of its file sections,
\* no file of the workspace has been written, the files of its earlier
\* sections included.
C5_FailedPatchWritesNothing ==
    (err.kind = "ApplyError" /\ err.cause = "PatchError") => disk = disk0

---------------------------------------------------------------------------
(* C6 *)

\* The context and removed lines of a hunk, in order.
OldLines(h) == SelectSeq(h.lines, LAMBDA l : l # <<>> /\ l[1] \in {" ", "-"})

\* The hunks are in file order and do not overlap, starting at line 1 or later.
WellOrdered(hunks) ==
    /\ \A n \in DOMAIN hunks : hunks[n].old_start >= 1
    /\ \A n \in 1..(Len(hunks) - 1) :
          hunks[n + 1].old_start >= hunks[n].old_start + Len(OldLines(hunks[n]))

\* Some context or removed line of some hunk differs from the line of src it
\* stands for: the k-th old line of a hunk stands for line old_start + k - 1.
DeclaredLineDiffers(src, hunks) ==
    \E n \in DOMAIN hunks :
       \E k \in DOMAIN OldLines(hunks[n]) :
          /\ hunks[n].old_start + k - 1 <= Len(src)
          /\ src[hunks[n].old_start + k - 1] # Tail(OldLines(hunks[n])[k])

\* The hunks of the one file section of the one apply_patch op of the plan.
TheHunks == plan.ops[1].patch.files[1].hunks

---------------------------------------------------------------------------
(* C7, C8 *)

\* The one op of the plan, and the text of its target as the run found it.
TheOp == plan.ops[1]
TextAsRead == ReadText(disk0, FileA)
DeclaredCount == IF TheOp.expect.t = "absent" THEN 1 ELSE TheOp.expect.n

\* C7: an anchor op whose anchor occurs in the file's text a number of times
\* other than the declared count fails with the anchor-mismatch ApplyError and
\* leaves the file as it was; with the declared number of occurrences it is
\* applied (declared 1 with two occurrences fails, declared 2 with two
\* occurrences is applied).
C7_AnchorCountGate ==
    tried # <<>> =>
       IF CountOccurrences(TextAsRead, TheOp.anchor) # DeclaredCount
       THEN /\ err = [kind |-> "ApplyError", cause |-> "anchor occurrence mismatch"]
            /\ disk = disk0
            /\ changed_files = {}
            /\ applied_ops = <<>>
       ELSE /\ err = NoError
            /\ applied_ops = <<0>>

\* C7's case: declared count 1, the anchor occurs twice, the op failed.
C7_Witness ==
    /\ tried # <<>>
    /\ TheOp.expect = IntValue(1)
    /\ CountOccurrences(TextAsRead, TheOp.anchor) = 2
    /\ err.cause = "anchor occurrence mismatch"
    /\ disk = disk0

\* The run of a plan of one insert_after, declared count 1, has ended.
SingleInsertAfterRan ==
    /\ pc \in {"applied", "exited", "crashed"}
    /\ TheOp.type = "insert_after"
    /\ DeclaredCount = 1

\* ... and the anchor occurs once in the text as read.
SingleInsertAfterOnce ==
    /\ SingleInsertAfterRan
    /\ CountOccurrences(TextAsRead, TheOp.anchor) = 1

\* The text with the content placed right after the first anchor.
WithInsertion(text, anchor, content) ==
    LET k == FirstOf(OccursAt(text, anchor, 1))
    IN  SubSeq(text, 1, k + Len(anchor) - 1) \o content
        \o SubSeq(text, k + Len(anchor), Len(text))

---------------------------------------------------------------------------
(* C9, C10 *)

\* The workspace before the k-th op tried (k counts from 1).
DiskBefore(k) == IF k = 1 THEN disk0 ELSE diskHist[k - 1]

\* C9: a create_file op whose target exists when the op runs, from the start
\* or since an earlier op of the plan, fails with ApplyError and is the last
\* op tried; no create_file op changes or removes a file that existed.
C9_CreateNeverOverwrites ==
    \A k \in DOMAIN tried :
       plan.ops[k].type = "create_file" =>
          /\ Exists(DiskBefore(k), ResolveUnder(Root, plan.ops[k].path)) =>
                /\ k = Len(tried)
                /\ err = [kind |-> "ApplyError", cause |-> "target already exists"]
                /\ diskHist[k] = DiskBefore(k)
          /\ \A q \in DOMAIN DiskBefore(k) :
                q \in DOMAIN diskHist[k] /\ diskHist[k][q] = DiskBefore(k)[q]

\* C9's case: the first op created sections/b.liquid, the second op is a
\* create_file of the same file under another spelling, and failed.
C9_Witness ==
    /\ Len(tried) = 2
    /\ plan.ops[1] = CreateOp(PathB, <<"a">>)
    /\ plan.ops[2] = CreateOp(PathBAlias, <<"b">>)
    /\ err.cause = "target already exists"
    /\ disk[FileB] = FileNode(<<"a">>)

\* C10: the ops are tried in list order; after a failure no later op is tried,
\* the ops before the failing one are the ones applied, and what they wrote is
\* what the workspace holds.
C10_InOrderStopAtFirstFailure ==
    /\ \A k \in DOMAIN tried : tried[k] = k - 1
    /\ \A k \in DOMAIN applied_ops : applied_ops[k] = k - 1
    /\ Len(tried) <= Len(plan.ops)
    /\ err.kind \in {"", "PlanError"} => applied_ops = tried
    /\ err.kind \notin {"", "PlanError"} =>
          /\ pc \in {"exited", "crashed"}
          /\ Len(tried) = Len(applied_ops) + 1
          /\ disk = DiskBefore(Len(tried))
          /\ \A rel \in created_files : IsFile(disk, ResolveUnder(Root, rel))

\* C10's case: of three ops the first created a file, the second failed, and
\* the third was not tried; the created file is on disk.
C10_Witness ==
    /\ Len(plan.ops) = 3
    /\ tried = <<0, 1>>
    /\ applied_ops = <<0>>
    /\ err.kind = "ApplyError"
    /\ pc = "exited"
    /\ created_files = {PathB}
    /\ disk # disk0
    /\ disk[FileB] = FileNode(<<"a">>)

---------------------------------------------------------------------------
(* C11 *)

\* C11: when an op fails with ApplyError after earlier ops changed or created
\* files, what is delivered to the caller and written to apply_error.txt names
\* every file those earlier ops changed or created.
C11_FailureReportsPartialApplication ==
    (err.kind = "ApplyError" /\ "apply_error.txt" \in artifacts) =>
        (changed_files \cup created_files) \subseteq named_files

---------------------------------------------------------------------------
(* C12 *)

\* C12: every failure while the ops of a validated plan are applied, a hunk
\* that starts beyond the end of the file included, ends apply_plan_ops with
\* ApplyError, which the caller's handler writes to apply_error.txt.
C12_EveryApplyFailureIsApplyError ==
    (tried # <<>> /\ err.kind # "") =>
        /\ err.kind = "ApplyError"
        /\ pc = "exited"
        /\ "apply_error.txt" \in artifacts

---------------------------------------------------------------------------
(* C13 *)

\* The file sections of the one apply_patch op of the plan.
TheSections == plan.ops[1].patch.files

\* The paths whose node is not what it was when the run started.
WrittenPaths == {q \in DOMAIN disk : q \notin DOMAIN disk0 \/ disk[q] # disk0[q]}

\* The location a section's new path resolves to.
SectionTarget(fp) == ResolveUnder(Root, NormRelPath(fp.path_new))

\* C13: every file apply_unified_patch writes is the target of the new path of
\* a section whose new path passes the safe-path check, and lies inside the
\* root under an allowed top-level directory; a patch of which a section's
\* target lies elsewhere is rejected with PatchError.
C13_PatchWritesOnlyInScope ==
    tried # <<>> =>
       /\ \A q \in WrittenPaths :
             /\ UnderAllowedPlanDir(q)
             /\ \E k \in DOMAIN TheSections :
                   /\ SectionTarget(TheSections[k]) = q
                   /\ IsSafeThemePath(NormRelPath(TheSections[k].path_new))
       /\ (\E k \in DOMAIN TheSections : ~UnderAllowedPlanDir(SectionTarget(TheSections[k])))
          => (err.kind = "ApplyError" /\ err.cause = "PatchError")

\* C13's case: a section whose old path is x/a and whose new path is
\* sections/a.liquid was applied to sections/a.liquid, and a later section
\* whose new path is x/a was rejected with x/a as it was.
C13_Witness ==
    /\ tried # <<>>
    /\ Len(TheSections) = 2
    /\ TheSections[1].path_old = PathOutside
    /\ TheSections[1].path_new = PathA
    /\ TheSections[2].path_new = PathOutside
    /\ WrittenPaths = {FileA}
    /\ disk[FileOutside] = disk0[FileOutside]
    /\ err.cause = "PatchError"

---------------------------------------------------------------------------
(* C14 *)

\* validate_plan was called with its default keyword arguments and has ended.
ValidatedByDefault == valPc \in {"returned", "raised"} /\ val_limits = DefaultLimits

HasCreate(p) == \E k \in DOMAIN p.ops : p.ops[k].type = "create_file"

RECURSIVE NonBlankChars(_)
\* The number of characters of a run-length encoded str that are not blank.
NonBlankChars(runs) ==
    IF runs = <<>> THEN 0
    ELSE (IF Head(runs).ws THEN 0 ELSE Head(runs).n) + NonBlankChars(Tail(runs))

\* The plan has no justification, or one of fewer than the minimum number of
\* characters once trimmed (the justifications here hold blanks at their ends only).
JustificationLacking(p) ==
    \/ ~p.reuse_analysis.isdict
    \/ p.reuse_analysis.just.t # "str"
    \/ NonBlankChars(p.reuse_analysis.just.runs) < min_justification_chars

JustificationErrors == {"missing reuse_analysis", "justification is too short"}

\* C14: a plan with a create_file op and no justification, or one that is too
\* short once trimmed, is rejected; the plan rejected for that reason alone is
\* accepted once a justification of the minimum length is added; a plan with
\* no create_file op is never rejected for its justification.
C14_JustificationRequiredForCreates ==
    ValidatedByDefault =>
       /\ (HasCreate(val_plan) /\ JustificationLacking(val_plan)) => valPc = "raised"
       /\ (valPc = "raised" /\ valOutcome.err \in JustificationErrors) =>
             /\ HasCreate(val_plan)
             /\ JustificationLacking(val_plan)
             /\ validate_plan([val_plan EXCEPT
                    !.reuse_analysis = ReuseAnalysis(min_justification_chars)]).err = ""
       /\ ~HasCreate(val_plan) =>
             /\ valOutcome.err \notin JustificationErrors
             /\ validate_plan([val_plan EXCEPT !.reuse_analysis = NoReuseAnalysis]).err
                = valOutcome.err

\* C14's case: a plan of one create_file op whose justification has the
\* minimum length only with the blanks around it was rejected for it.
C14_Witness ==
    /\ ValidatedByDefault
    /\ val_plan.ops = <<CreateOp(PathB, <<"a">>)>>
    /\ val_plan.reuse_analysis.just = Justification(1, min_justification_chars - 1, 1)
    /\ valPc = "raised"
    /\ valOutcome.err = "justification is too short"

---------------------------------------------------------------------------
(* C15 *)

AnchorBearing == {"insert_after", "insert_before", "replace_once"}

\* C15: every anchor-bearing op of a plan validate_plan accepts declares an
\* expected occurrence count that is a positive integer; an op whose count is
\* absent, zero, negative or no integer makes validate_plan raise PlanError.
C15_AnchorOpsDeclarePositiveCount ==
    valPc = "returned" =>
       \A k \in DOMAIN val_plan.ops :
          val_plan.ops[k].type \in AnchorBearing =>
             /\ val_plan.ops[k].expect.t = "int"
             /\ val_plan.ops[k].expect.n >= 1

---------------------------------------------------------------------------
(* C16 *)

\* The characters an op writes: its content, replacement, or patch text.
WrittenChars(op) ==
    CASE op.type = "replace_once" -> Len(op.replacement)
      [] op.type = "apply_patch" -> op.patch.len
      [] OTHER -> Len(op.content)

RECURSIVE TotalWrittenChars(_)
TotalWrittenChars(ops) ==
    IF ops = <<>> THEN 0 ELSE WrittenChars(Head(ops)) + TotalWrittenChars(Tail(ops))

CreateCount(ops) == Cardinality({k \in DOMAIN ops : ops[k].type = "create_file"})

\* The path ends with an extension allowed for creation in its first segment.
CreateExtAllowed(path) ==
    \E ext \in ALLOWED_CREATE_EXTS_BY_DIR(SplitFirst(path, "/")) : EndsWith(path, ext)

\* C16: a plan validate_plan accepts has between one and max_ops ops, at most
\* max_creates create_file ops, each with an extension allowed for its
\* top-level directory, and writes at most max_total_written_chars characters
\* in all; a plan beyond one of these is rejected with PlanError.
C16_AcceptedPlanWithinLimits ==
    /\ valPc = "returned" =>
          /\ Len(val_plan.ops) >= 1
          /\ Len(val_plan.ops) <= val_limits.max_ops
          /\ CreateCount(val_plan.ops) <= val_limits.max_creates
          /\ \A k \in DOMAIN val_plan.ops :
                val_plan.ops[k].type = "create_file" =>
                   CreateExtAllowed(valOutcome.plan.ops[k].path)
          /\ TotalWrittenChars(val_plan.ops) <= val_limits.max_total_written_chars
    /\ (/\ valPc \in {"returned", "raised"}
        /\ \/ Len(val_plan.ops) = 0
           \/ Len(val_plan.ops) > val_limits.max_ops
           \/ CreateCount(val_plan.ops) > val_limits.max_creates)
          => (valPc = "raised" /\ valOutcome.err # "")

\* C16's case: a plan of valid ops that writes one character more than
\* max_total_written_chars was rejected for it.
C16_Witness ==
    /\ valPc = "raised"
    /\ valOutcome.err = "writes too much"
    /\ Len(val_plan.ops) = 2
    /\ TotalWrittenChars(val_plan.ops) = val_limits.max_total_written_chars + 1
    /\ CreateCount(val_plan.ops) = 1

---------------------------------------------------------------------------
(* C17 *)

\* A path in normalized form: no backslash, no leading "/", no "//".
IsNormalized(path) ==
    /\ \A k \in DOMAIN path : path[k] # "\\"
    /\ ~StartsWith(path, <<"/">>)
    /\ ~Contains(path, <<"/", "/">>)

\* What validate_plan is to return for the plan p.
WithNormalizedPaths(p) ==
    [p EXCEPT !.ops =
        [k \in DOMAIN p.ops |->
            IF p.ops[k].type \in PathBearing
            THEN [p.ops[k] EXCEPT !.path = NormRelPath(p.ops[k].path)]
            ELSE p.ops[k]]]

\* C17: a successful validate_plan returns its input with each path-bearing
\* op's path replaced by its normalized form, op count, op order and every
\* other field kept; it leaves its argument as it was; and validating the
\* returned plan again returns an equal plan.
C17_ReturnsInputWithNormalizedPaths ==
    [][(valPc = "call" /\ valPc' = "returned") =>
          /\ val_plan' = val_plan
          /\ valOutcome'.plan = WithNormalizedPaths(val_plan)
          /\ Len(valOutcome'.plan.ops) = Len(val_plan.ops)
          /\ \A k \in DOMAIN val_plan.ops :
                val_plan.ops[k].type \in PathBearing =>
                   IsNormalized(valOutcome'.plan.ops[k].path)
          /\ ValidatePlanWith(valOutcome'.plan, val_limits)
                = [err |-> "", plan |-> valOutcome'.plan]]_vars

\* C17's case: a plan of two ops was accepted, and the path of its second op
\* was not in normalized form.
C17_Witness ==
    /\ valPc = "returned"
    /\ Len(val_plan.ops) = 2
    /\ val_plan.ops[2].type \in PathBearing
    /\ ~IsNormalized(val_plan.ops[2].path)
    /\ val_plan.ops[1].type = "apply_patch"
    /\ valOutcome.plan # val_plan

---------------------------------------------------------------------------
(* C18 *)

\* C18: write_text(p, c) that succeeds, followed by read_text(p), returns
\* exactly c.
C18_WriteThenReadReturnsContent ==
    (twPc = "read" /\ twOutcome = "returned") =>
        tw_read = [status |-> "returned", text |-> tw_content]

---------------------------------------------------------------------------
(* C19 *)

\* The file that the path handed to write_text names in the workspace.
TwTarget == ResolveUnder(Root, LStripSet(Strip(tw_rel_path), {"/"}))

AssetsDir == Root \o << <<"assets">> >>

\* The file lies under the assets directory and its name carries one of the
\* binary or media extensions, in any case.
IsMediaAsset(target) ==
    /\ Len(target) > Len(AssetsDir)
    /\ StartsWith(target, AssetsDir)
    /\ Lower(Suffix(Name(target))) \in BLOCKED_ASSET_EXTS

\* The content holds "data:image/" and is longer than the threshold.
HasLargeInlineImage(content) ==
    /\ \E k \in DOMAIN content : content[k] = "data:image/"
    /\ StrLen(content) > inline_image_max_chars

\* C19: write_text raises ThemeScopeError for every write of a file under the
\* assets directory with a binary or media extension, and for every write
\* whose content holds inline image data beyond the size threshold, whatever
\* the path.
C19_MediaAndInlineImagesRejected ==
    twPc \in {"written", "raised", "read"} =>
        /\ IsMediaAsset(TwTarget) => twOutcome = "ThemeScopeError"
        /\ HasLargeInlineImage(tw_content) => twOutcome = "ThemeScopeError"

---------------------------------------------------------------------------
(* C20 *)

\* C20: when write_text raises ThemeScopeError the workspace is as it was
\* before the call: no file and no directory was created or changed.
C20_ScopeErrorLeavesWorkspaceUnchanged ==
    twOutcome = "ThemeScopeError" => tw_fs = tw_fs0

\* C20's case: a write of large inline image data to a path that is allowed,
\* in a directory that does not exist yet, was refused.
C20_Witness ==
    /\ twPc = "raised"
    /\ twOutcome = "ThemeScopeError"
    /\ ResolveRel(tw_rel_path).status = "returned"
    /\ ~block_asset_binary_types(tw_rel_path)
    /\ ~Exists(tw_fs0, AssetsDir)
    /\ TwTarget = AssetsDir \o << <<"x">> >>
    /\ HasLargeInlineImage(tw_content)

---------------------------------------------------------------------------
(* C21 *)

\* The path as ArtifactFS reads it: blanks and leading "/" removed.
AfRel == LStripSet(Strip(af_rel_path), {"/"})

\* The paths at which two file systems differ.
Differing(f, g) ==
    {q \in DOMAIN f \cup DOMAIN g :
        q \notin DOMAIN f \/ q \notin DOMAIN g \/ f[q] # g[q]}

\* C21: a successful ArtifactFS write lands under the artifact root and
\* changes nothing outside it; a relative path without a ".." segment that
\* stays under the root is accepted, whatever its first directory; a path with
\* a ".." segment, or one that resolves outside the root, is refused with
\* ArtifactScopeError and nothing is written.
C21_ArtifactWritesStayUnderRoot ==
    afPc \in {"returned", "raised"} =>
        /\ afOutcome.status = "returned" =>
              /\ Len(afOutcome.p) > Len(ArtifactRoot)
              /\ StartsWith(afOutcome.p, ArtifactRoot)
              /\ \A q \in Differing(af_fs, af_fs0) : StartsWith(q, ArtifactRoot)
        /\ (/\ ~HasParentSegment(AfRel)
            /\ StartsWith(ResolveUnder(ArtifactRoot, AfRel), ArtifactRoot))
              => afOutcome.status # "ArtifactScopeError"
        /\ (\/ HasParentSegment(AfRel)
            \/ ~StartsWith(ResolveUnder(ArtifactRoot, AfRel), ArtifactRoot))
              => (afOutcome.status = "ArtifactScopeError" /\ af_fs = af_fs0)

---------------------------------------------------------------------------
(* C28 *)

\* The keyword stands in the text at position i, in any letter case.
KeywordAt(text, i) ==
    /\ i + Len(Keyword) - 1 <= Len(text)
    /\ \A k \in DOMAIN Keyword : LowerChar(text[i + k - 1]) = Keyword[k]

\* The signal file exists and holds the keyword, in any letter case.
SignalHoldsKeyword ==
    signal.exists /\ \E i \in DOMAIN signal.bytes : KeywordAt(signal.bytes, i)

---------------------------------------------------------------------------
(* C29 *)

RECURSIVE WithoutKeyword(_)
\* The text with every occurrence of the keyword, in any letter case, removed.
WithoutKeyword(text) ==
    IF text = <<>> THEN <<>>
    ELSE IF KeywordAt(text, 1) THEN WithoutKeyword(Drop(text, Len(Keyword)))
    ELSE <<Head(text)>> \o WithoutKeyword(Tail(text))

\* "please, ship it"
PleaseShipIt ==
    <<"p", "l", "e", "a", "s", "e", ",", " ", "s", "h", "i", "p", " ", "i", "t">>

\* C29: what wait_for_continue returns is the signal's content with the
\* keyword removed, in whatever letter case it stood, and the rest trimmed;
\* the notes do not hold the keyword; the signal file is empty afterwards; and
\* for "please continue, ship it" the notes are "please, ship it".
C29_NotesAreContentWithoutKeyword ==
    gatePc = "returned" =>
        /\ gate_notes = Strip(WithoutKeyword(Strip(DecodeNewlines(gate_raw))))
        /\ ~\E i \in DOMAIN gate_notes : KeywordAt(gate_notes, i)
        /\ signal = FileOf(<<>>)
        /\ gate_raw = PleaseContinue => gate_notes = PleaseShipIt

---------------------------------------------------------------------------
(* C22 *)

\* The call reaches call_tool, and call_tool's code fails on it: the name is
\* unknown, or the tool's code returns a failure or raises.
FailsInCallTool(call) ==
    /\ call.name # ""
    /\ call.name \notin ToolNames \/ call.does # "returns"

\* C22: a call that fails inside call_tool -- an unknown name, a scope or
\* command rejection, any other exception -- never ends the round: its
\* result, with ok false and an error message, is appended to the
\* conversation and the round goes on with the next requested call.
C22_ToolFailureStaysInRound ==
    [][(loopPc = "tools" /\ FailsInCallTool(Head(pending)) /\ loopVars' # loopVars) =>
          /\ loopPc' = IF Tail(pending) = <<>> THEN "chat" ELSE "tools"
          /\ pending' = Tail(pending)
          /\ loopOutcome' = loopOutcome
          /\ \E r \in {[ok |-> FALSE, error |-> e] :
                          e \in {"Unknown tool", "tool_error", Head(pending).does}} :
                /\ r.error # ""
                /\ messages' = Append(messages, ToolMessage(Head(pending), r))]_vars

\* An unknown name, a scope rejection and a timeout have each been answered
\* with a failure result, and the call after a failed one has been answered.
C22_Witness ==
    /\ \E k \in DOMAIN messages :
          /\ messages[k].role = "tool"
          /\ messages[k].result = [ok |-> FALSE, error |-> "Unknown tool"]
          /\ k + 2 \in DOMAIN messages
          /\ messages[k + 1].result = [ok |-> FALSE, error |-> "ThemeScopeError"]
          /\ messages[k + 2].result = [ok |-> FALSE, error |-> "TimeoutExpired"]
    /\ \E k \in DOMAIN messages :
          /\ messages[k].result = [ok |-> FALSE, error |-> "MCPError"]
          /\ k + 1 \in DOMAIN messages
          /\ messages[k + 1].role = "tool"
          /\ messages[k + 1].tool_call_id = "c2"

---------------------------------------------------------------------------
(* C23 *)

\* How many model requests have been issued.
Requests == Len(SelectSeq(lp_log, LAMBDA e : e.ev = "request"))

\* The ids of the tool calls that have been started, in the order they started.
StartedIds ==
    LET started == SelectSeq(lp_log, LAMBDA e : e.ev = "tool")
    IN  [k \in DOMAIN started |-> started[k].x]

\* The ids the tool messages of the conversation carry, in order.
AnsweredIds ==
    LET answers == SelectSeq(messages, LAMBDA m : m.role = "tool")
    IN  [k \in DOMAIN answers |-> answers[k].tool_call_id]

\* The assistant message at k requested tool calls, and what follows it in
\* the conversation is the answers to these calls, one message for each call,
\* in the order requested, and nothing else before the next assistant message.
AnsweredInOrder(k) ==
    LET calls == messages[k].tool_calls
        got == Min(Len(calls), Len(messages) - k)
    IN  /\ \A j \in 1..got :
              /\ messages[k + j].role = "tool"
              /\ messages[k + j].tool_call_id = calls[j].id
        /\ k + got < Len(messages) => messages[k + got + 1].role = "assistant"
        /\ got < Len(calls) =>
              /\ loopPc \in {"tools", "tool_paused"}
              /\ pending = SubSeq(calls, got + 1, Len(calls))

\* Every requested call of every round so far has its answer in the conversation.
RoundsComplete ==
    \A k \in DOMAIN messages :
        (messages[k].role = "assistant" /\ messages[k].tool_calls # <<>>) =>
            k + Len(messages[k].tool_calls) <= Len(messages)

\* C23: the tool calls of a round run in the order requested, one at a
\* time; each gets exactly one tool message with its id, appended in that
\* order right after the assistant message that requested them; and the next
\* model request is issued only when all of them are in the conversation.
C23_ToolResultsInRequestOrder ==
    /\ [](/\ \A k \in DOMAIN messages :
                (messages[k].role = "assistant" /\ messages[k].tool_calls # <<>>) =>
                    AnsweredInOrder(k)
          /\ messages[1].role = "system"
          /\ \A k \in DOMAIN messages :
                messages[k].role = "tool" => k > 1 /\ messages[k - 1].role # "system"
          /\ Len(StartedIds) - Len(AnsweredIds) \in
                (IF loopPc = "tool_paused" THEN {1} ELSE {0})
          /\ AnsweredIds = SubSeq(StartedIds, 1, Len(AnsweredIds)))
    /\ [][Requests' > Requests => RoundsComplete]_vars

\* A round of four calls, two of them with the same id, has been answered and
\* the next model request has been issued and answered.
C23_Witness ==
    \E k \in DOMAIN messages :
        /\ Len(messages[k].tool_calls) = 4
        /\ k + 5 \in DOMAIN messages
        /\ [j \in 1..4 |-> messages[k + j].tool_call_id] = <<"c1", "c2", "c1", "c3">>
        /\ messages[k + 5].role = "assistant"

---------------------------------------------------------------------------
(* C24 *)

\* C24: after a decision with status done the run has ended as done, after a
\* decision with status error it has ended as failed, and in both cases no
\* model request and no tool call follows the decision.
C24_TerminalDecisionEndsRun ==
    \A k \in DOMAIN lp_log :
        (lp_log[k].ev = "decision" /\ lp_log[k].x \in {"done", "error"}) =>
            /\ \A j \in DOMAIN lp_log : j > k => lp_log[j].ev \notin {"request", "tool"}
            /\ lp_log[k].x = "done" => loopPc = "returned" /\ loopOutcome = ""
            /\ lp_log[k].x = "error" => loopPc = "raised"

---------------------------------------------------------------------------
(* C25 *)

\* C25: run_agent_loop returns normally only after a done decision: a round
\* that has used all its tool round trips ends the run with an error, and so
\* does a run that has used all its iterations without a done decision.
C25_BudgetExhaustionIsFailure ==
    /\ [](loopPc = "returned" =>
              \E k \in DOMAIN lp_log : lp_log[k] = LogOf("decision", "done"))
    /\ [][(loopPc = "chat" /\ lp_trips >= lp_max_trips /\ loopVars' # loopVars) =>
              loopPc' = "raised" /\ loopOutcome' = "LLMError"]_vars

---------------------------------------------------------------------------
(* C26 *)

\* How many decisions the first k events of the log hold: the iteration the
\* k-th event belongs to, when it is a decision.
DecisionsUpTo(k) ==
    Cardinality({j \in 1..k : lp_log[j].ev = "decision"})

\* The run stays paused, with no model request and no tool call, from a
\* needs_human decision until the human gate has returned.
PausedUntilGateReturns ==
    /\ [](\A k \in DOMAIN lp_log :
              lp_log[k] = LogOf("decision", "needs_human") =>
                  /\ k + 1 \in DOMAIN lp_log /\ lp_log[k + 1] = LogOf("pause", "loop")
                  /\ k + 2 \in DOMAIN lp_log => lp_log[k + 2] = LogOf("resume", "loop")
                  /\ k + 2 \notin DOMAIN lp_log => loopPc = "paused")
    /\ [][(loopPc = "paused" /\ loopPc' # "paused") =>
              gatePc = "returned" /\ loopPc' = "iter"]_vars

---------------------------------------------------------------------------
(* C27 *)

ValidStatuses == {"continue", "done", "needs_human", "error"}

\* The last message of the conversation: the content the decision was made from.
LastContent == messages[Len(messages)].content

\* C27: the decision run_agent_loop receives is an object with a valid
\* status; a content that is not a JSON object, or has no valid status, has
\* become a decision with status continue that holds the whole raw text.
C27_NonConformingCoercedToContinue ==
    loopPc = "decided" =>
        /\ decision.type = "dict"
        /\ decision.status \in ValidStatuses
        /\ (LastContent.json # "object" \/ LastContent.status \notin ValidStatuses) =>
              /\ decision.status = "continue"
              /\ decision.edits = LastContent.len

---------------------------------------------------------------------------
(* C30 *)

\* The handshake has gone through: initialize was written with the first id,
\* the next thing was the reading of one line, which held a result, and then
\* the initialized notification was written, with no line read after it.
Handshaken ==
    /\ Len(mcp_wire) >= 3
    /\ mcp_wire[1] = WrittenLine("initialize", 1, TRUE)
    /\ mcp_wire[2].dir = "read"
    /\ mcp_wire[2].line \notin {"error", "no_result", "invalid", "eof"}
    /\ mcp_wire[3] = WrittenLine("notifications/initialized", 0, TRUE)
    /\ Len(mcp_wire) >= 4 => mcp_wire[4].dir = "write"

\* C30: in every session the first line written is the initialize request,
\* its response is read next, then the initialized notification is written and
\* no response is read for it, and only after that is a tools/list or
\* tools/call request written; from_cmd returns no client when initialize failed.
C30_HandshakeBeforeTools ==
    /\ mcp_wire # <<>> =>
          /\ mcp_wire[1].dir = "write"
          /\ mcp_wire[1].method = "initialize"
          /\ \A k \in DOMAIN mcp_wire : k > 1 => mcp_wire[k].method # "initialize"
    /\ (Len(mcp_wire) >= 2 /\ mcp_wire[1].ok) => mcp_wire[2].dir = "read"
    /\ Len(mcp_wire) >= 3 => mcp_wire[3].method = "notifications/initialized"
    /\ \A k \in DOMAIN mcp_wire :
          mcp_wire[k].method \in {"tools/list", "tools/call"} => k > 3 /\ Handshaken
    /\ mcpPc \in {"ready", "closed"} => Handshaken

\* A client was returned after the handshake and a tools/list and a
\* tools/call request have been written on it.
C30_Witness ==
    /\ Handshaken
    /\ \E j, k \in DOMAIN mcp_wire :
          /\ mcp_wire[j].method = "tools/list"
          /\ mcp_wire[k].method = "tools/call"

---------------------------------------------------------------------------
(* C35 *)

RECURSIVE BodyStarts(_, _, _)
\* The 0-based source line at which the body of each hunk is matched, hunk
\* by hunk, as far as the hunks apply.
BodyStarts(src, st, hunks) ==
    LET Body(at) ==
            IF at.status # "ok" THEN <<>>
            ELSE <<at.idx>> \o BodyStarts(src, ApplyHunkLines(src, at, Head(hunks).lines),
                                          Tail(hunks))
    IN  IF hunks = <<>> \/ st.status # "ok" THEN <<>>
        ELSE Body(CopyToHunkStart(src, st, Head(hunks)))

\* C35: in a patch that applied, the body of every hunk was matched at the
\* hunk's declared old start line and nowhere else; a hunk that declares a
\* start before the line the earlier hunks have reached is not applied at
\* another line.
C35_HunksApplyAtDeclaredStart ==
    (tried # <<>> /\ err = NoError) =>
        LET starts == BodyStarts(SplitLines(ReadText(disk0, FileA)),
                                 [status |-> "ok", out |-> <<>>, idx |-> 0], TheHunks)
        IN  /\ Len(starts) = Len(TheHunks)
            /\ \A n \in DOMAIN TheHunks :
                  starts[n] = Max(TheHunks[n].old_start - 1, 0)

---------------------------------------------------------------------------
(* C37 *)

\* Every line of every hunk is a context line.
OnlyContext(hunks) ==
    \A n \in DOMAIN hunks : \A k \in DOMAIN hunks[n].lines :
        hunks[n].lines[k] # <<>> /\ hunks[n].lines[k][1] = " "

\* C37: a patch that applied leaves the file ending with a newline if and only
\* if it ended with one before; and a patch with no hunks, or with hunks of
\* matching context lines only, leaves the file as it was, not rewritten and
\* not listed as changed.
C37_NewlineAndContentPreserved ==
    (tried # <<>> /\ err = NoError /\ plan.ops[1].patch.files # <<>>) =>
        /\ EndsWith(ReadText(disk, FileA), <<"LF">>)
              <=> EndsWith(ReadText(disk0, FileA), <<"LF">>)
        /\ OnlyContext(TheHunks) => disk = disk0 /\ changed_files = {}

---------------------------------------------------------------------------
(* C38 *)

\* C38: no plan validate_plan accepts holds a create_file op whose path
\* ThemeFS.write_text refuses for its extension: a validated plan creates no
\* file with a blocked media extension under assets/.
C38_ValidatedCreatesPassAssetPolicy ==
    valPc = "returned" =>
        \A k \in DOMAIN valOutcome.plan.ops :
            valOutcome.plan.ops[k].type = "create_file" =>
                ~block_asset_binary_types(valOutcome.plan.ops[k].path)

---------------------------------------------------------------------------
(* C39 *)

\* config/settings_data.json, as a file of the workspace.
SettingsFile == Root \o << <<"config">>, <<"settings_data", ".", "json">> >>

\* C39: config/settings_data.json is never created or modified by a write
\* on behalf of the model: after a call of ThemeFS.write_text, the way the
\* theme_write_file tool writes, the file is as it was before the call.
C39_SettingsDataNeverWritten ==
    twPc \in {"written", "raised", "read"} =>
        /\ SettingsFile \in DOMAIN tw_fs <=> SettingsFile \in DOMAIN tw_fs0
        /\ SettingsFile \in DOMAIN tw_fs0 => tw_fs[SettingsFile] = tw_fs0[SettingsFile]

\* C40: whenever the run has ended, by a done decision, by using up its
\* iterations or by an error, every subprocess it started has been asked to
\* terminate.
C40_StartedSubprocessesStopped ==
    loopPc \in {"returned", "raised"} => lp_procs.started \subseteq lp_procs.stopped

\* The decisions taken so far, and the requests of the round under way: those
\* made since the last decision.
DecisionCount == Len(SelectSeq(lp_log, LAMBDA e : e.ev = "decision"))

LastDecisionAt ==
    LET at == {k \in DOMAIN lp_log : lp_log[k].ev = "decision"}
    IN  IF at = {} THEN 0 ELSE CHOOSE k \in at : \A j \in at : j <= k

RoundRequests ==
    Cardinality({k \in DOMAIN lp_log : k > LastDecisionAt /\ lp_log[k].ev = "request"})

LoopEnded == loopPc \in {"returned", "raised"}

\* C36: a run takes at most max_iters decisions, a needs_human pause being one
\* of them, and makes at most max_tool_round_trips requests in a round; and if
\* every wait on the human gate returns, the run ends.
C36_TerminatesWithinBudgets ==
    /\ [](DecisionCount <= lp_max_iters /\ RoundRequests <= lp_max_trips)
    /\ []<>(gatePc # "polling") => <>LoopEnded

C36_Witness ==
    /\ loopPc = "returned"
    /\ lp_max_iters > 1
    /\ DecisionCount = lp_max_iters
    /\ \E k \in DOMAIN lp_log : lp_log[k] = LogOf("pause", "loop")
    /\ \E k \in DOMAIN lp_log : lp_log[k] = LogOf("return", "exhausted")

\* C34: every subprocess started during a run was created through run_allowed,
\* after the allow-list check of its argument vector.
C34_EveryLaunchThroughRunAllowed ==
    \A l \in lp_procs.launched : l.via = "run_allowed"

TakenIds == SelectSeq(mcp_trace, LAMBDA e : e.op = "take")

\* C31: the request ids one client issues are 1, 2, 3, ... in the order they
\* are taken, whatever the interleaving of the callers: no two requests carry
\* the same id and no id is skipped or used again.
C31_IdsIncreaseByOne ==
    /\ \A k \in DOMAIN TakenIds : TakenIds[k].id = k
    /\ \A c, d \in Callers :
          (c # d /\ mcp_threads[c].at # "idle" /\ mcp_threads[d].at # "idle")
              => mcp_threads[c].id # mcp_threads[d].id
    /\ \A i, j \in DOMAIN mcp_trace :
          (mcp_trace[i].op = "write" /\ mcp_trace[j].op = "write"
              /\ mcp_trace[i].id = mcp_trace[j].id) => i = j

C31_Witness ==
    \E c, d \in Callers :
        /\ c # d
        /\ mcp_threads[c].at = "took_id"
        /\ mcp_threads[d].at = "took_id"
        /\ mcp_threads[c].id = 2
        /\ mcp_threads[d].id = 3

\* C32: between a caller's write of its request and its read of the response
\* no other caller writes or reads, and the line a caller reads answers its
\* own request.
C32_RequestsSerialized ==
    \A j \in DOMAIN mcp_trace :
        mcp_trace[j].op = "read" =>
            /\ mcp_trace[j].answers # 0 => mcp_trace[j].answers = mcp_trace[j].id
            /\ \E i \in 1..(j - 1) :
                  /\ mcp_trace[i] = TraceOf(mcp_trace[j].caller, "write", mcp_trace[j].id, 0)
                  /\ \A k \in (i + 1)..(j - 1) :
                        mcp_trace[k].op = "take" \/ mcp_trace[k].caller = mcp_trace[j].caller

\* C33: a request returns a result only when the line read is an object with
\* no populated error and a result member; a populated error, no result
\* member, a line that is no JSON and the end of the stream each end it with
\* MCPError; and one line at most is read for a request.
C33_ResultOnlyFromGoodResponse ==
    /\ \A c \in Callers :
          (mcp_threads[c].at = "done" /\ mcp_threads[c].got # NoLine) =>
              /\ mcp_threads[c].status \in {"returned", "MCPError"}
              /\ mcp_threads[c].status = "returned" =>
                    /\ mcp_threads[c].got.kind = "object"
                    /\ mcp_threads[c].got.error # "populated"
                    /\ mcp_threads[c].got.result # "absent"
              /\ (\/ mcp_threads[c].got.kind \in {"eof", "invalid"}
                  \/ mcp_threads[c].got.error = "populated"
                  \/ mcp_threads[c].got.result = "absent") =>
                    mcp_threads[c].status = "MCPError"
    /\ \A i, j \in DOMAIN mcp_trace :
          (mcp_trace[i].op = "read" /\ mcp_trace[j].op = "read"
              /\ mcp_trace[i].id = mcp_trace[j].id) => i = j

C33_Witness ==
    \E c, d \in Callers :
        /\ mcp_threads[c].at = "done"
        /\ mcp_threads[c].status = "returned"
        /\ mcp_threads[d].at = "done"
        /\ mcp_threads[d].status = "MCPError"
        /\ mcp_threads[d].got.kind = "object"
        /\ mcp_threads[d].got.error = "populated"

=========================================================================
